---- MODULE Spec2Model ----
(***************************************************************************)
(* RFID tunnel reading screen (Lectura / Maleta components).  The Maleta   *)
(* component has the fields and handlers of Lectura and, on top, the list  *)
(* of cases (maletas) that the reads are reconciled against.               *)
(*                                                                         *)
(* The component is modelled as a state machine: one variable per field,   *)
(* one action per handler (user operation, HTTP response, timer tick,      *)
(* transport callback).  Handlers that call each other are written as      *)
(* operators over a record of the fields (This), so that an action is the  *)
(* whole handler, nested calls included.                                   *)
(*                                                                         *)
(* Browser objects the component only holds references to are part of the  *)
(* state: the EventSource and WebSocket objects that can still act (ess,   *)
(* wss: the readyState of each), the intervals that are scheduled (timers) *)
(* and the HTTP requests in flight (pending).                              *)
(***************************************************************************)
EXTENDS Integers, Sequences, FiniteSets, TLC

VARIABLES
    baseUrl,            \* RfidApi.baseUrl
    selectedReaderId,   \* "" when no reader is selected
    readers,            \* sequence of reader ids
    readerStatus,       \* "null" | "reading" | "idle"
    loading,
    error,
    statusPolling,      \* TRUE when the field holds an interval handle
    uiRefreshInterval,  \* TRUE when the field holds an interval handle
    timers,             \* scheduled intervals per purpose: [status, ui]
    eventSource,        \* index into ess, 0 = null
    ws,                 \* index into wss, 0 = null
    ess,                \* EventSource objects: readyState, "none" = free slot
    wss,                \* WebSocket objects: readyState, "none" = free slot
    sseConnected,
    pending,            \* per kind: some HTTP request is in flight
    uncaught,           \* TRUE once a handler let an exception escape
    phase,              \* "constructed" | "active" | "destroyed"
    antennas,           \* sequence of antenna ids
    events,             \* event log, newest first
    eventsReceived,
    tagCounts,          \* sequence of [id, count, lastSeen], insertion order
    totalReads,
    clock,              \* wall clock read by processEvent
    fed,                \* history: the texts received since the last clearEvents
    reads,              \* history: [raw, time] received since the last clearTags
    maletas,            \* sequence of [masterRfid, productRfids, expiredProductRfids]
    storage,            \* localStorage 'maleta_list': the list last saved
    newMaletaMasterRfid,
    newMaletaProductRfids,
    newProductRfidInput,
    simulatedReadInput,
    showSimulatedRead,
    imported,           \* history: what the last file import did:
                        \* "none" | "applied" | "ignored"
    retryCountdown,     \* Maleta: seconds to the next retry of the reader list
    retryTimer,         \* Maleta: TRUE when the field holds an interval handle
    retryTimers         \* Maleta: retry intervals that are scheduled

\* the fields of the reading screen and the browser state around them
readingVars == <<baseUrl, selectedReaderId, readers, readerStatus, loading,
                 error, statusPolling, uiRefreshInterval, timers, eventSource,
                 ws, ess, wss, sseConnected, pending, uncaught, phase,
                 antennas, events, eventsReceived, tagCounts, totalReads,
                 clock, fed, reads>>

\* the fields of the retry of the reader list
retryVars == <<retryCountdown, retryTimer, retryTimers>>

\* the fields that only Maleta has: the case list, its form, the simulated
\* read and the retry
caseVars == <<maletas, storage, newMaletaMasterRfid, newMaletaProductRfids,
              newProductRfidInput, simulatedReadInput, showSimulatedRead,
              imported, retryVars>>

vars == <<readingVars, caseVars>>

----------------------------------------------------------------------------
(* Bounds of the model *)

\* EventSource (and WebSocket) objects that exist at the same time and are
\* not yet closed for good
MaxTransports == 2
\* intervals scheduled at the same time for one purpose
MaxTimers == 2
\* messages received in a run of the aggregator specification
MaxAggEvents == 3
\* messages received in a run of the event-log specification
MaxLogEvents == 202
\* last reading of the wall clock
MaxClock == 1
\* messages received in a run of the extractor specification
MaxExtractEvents == 2

----------------------------------------------------------------------------
(* The component's fields and the browser state as one record *)

This ==
    [baseUrl |-> baseUrl, selectedReaderId |-> selectedReaderId,
     readers |-> readers, readerStatus |-> readerStatus, loading |-> loading,
     error |-> error, statusPolling |-> statusPolling,
     uiRefreshInterval |-> uiRefreshInterval, timers |-> timers,
     eventSource |-> eventSource, ws |-> ws, ess |-> ess, wss |-> wss,
     sseConnected |-> sseConnected, pending |-> pending, uncaught |-> uncaught,
     phase |-> phase, antennas |-> antennas, events |-> events, eventsReceived |-> eventsReceived,
     tagCounts |-> tagCounts, totalReads |-> totalReads, full |-> FALSE]

Becomes(s) ==
    /\ baseUrl' = s.baseUrl
    /\ selectedReaderId' = s.selectedReaderId
    /\ readers' = s.readers
    /\ readerStatus' = s.readerStatus
    /\ loading' = s.loading
    /\ error' = s.error
    /\ statusPolling' = s.statusPolling
    /\ uiRefreshInterval' = s.uiRefreshInterval
    /\ timers' = s.timers
    /\ eventSource' = s.eventSource
    /\ ws' = s.ws
    /\ ess' = s.ess
    /\ wss' = s.wss
    /\ sseConnected' = s.sseConnected
    /\ pending' = s.pending
    /\ uncaught' = s.uncaught
    /\ phase' = s.phase
    /\ antennas' = s.antennas
    /\ events' = s.events
    /\ eventsReceived' = s.eventsReceived
    /\ tagCounts' = s.tagCounts
    /\ totalReads' = s.totalReads

RequestKinds == {"readers", "antennas", "status", "start", "stop",
                 "reset", "reboot", "resetAntennas"}

\* s.full: a constructor found no free slot
InBounds(s) ==
    /\ ~s.full
    /\ s.timers.status <= MaxTimers
    /\ s.timers.ui <= MaxTimers

\* The requests in flight are kept per kind as a flag, "at least one": a
\* response may leave the flag set (another request of the kind is still in
\* flight) or clear it (it was the last one).
Request(s, k) == [s EXCEPT !.pending[k] = TRUE]

----------------------------------------------------------------------------
(* RfidApi: the base address *)

\* ensureAbsoluteUrl on the addresses the model enters
ensureAbsoluteUrl(url) ==
    CASE url = "" -> ""
      [] url = "http://gw" -> url
      [] OTHER -> "http://" \o url

UrlInputs == {"", "gw"}

----------------------------------------------------------------------------
(* Timers *)

stopStatusPolling(s) ==
    IF s.statusPolling
    THEN [s EXCEPT !.timers.status = @ - 1, !.statusPolling = FALSE]
    ELSE s

stopUiRefresh(s) ==
    IF s.uiRefreshInterval
    THEN [s EXCEPT !.timers.ui = @ - 1, !.uiRefreshInterval = FALSE]
    ELSE s

startUiRefresh(s) ==
    LET d == stopUiRefresh(s)
    IN  [d EXCEPT !.timers.ui = @ + 1, !.uiRefreshInterval = TRUE]

\* restartStatusPolling that does not cancel the interval it holds
restartStatusPolling_NoStop(s) ==
    IF s.selectedReaderId = "" THEN s
    ELSE [s EXCEPT !.timers.status = @ + 1, !.statusPolling = TRUE]

restartStatusPolling(s) ==
    LET d == stopStatusPolling(s)
    IN  IF d.selectedReaderId = "" THEN d
        ELSE [d EXCEPT !.timers.status = @ + 1, !.statusPolling = TRUE]

----------------------------------------------------------------------------
(* The realtime channel *)

Slots == 1..MaxTransports

\* An object that is closed and that the component no longer references can
\* do nothing more: its slot is free again.
Unreferenced(state) == IF state = "closed" THEN "none" ELSE state

\* EventSource.close(): readyState CLOSED at once, no event follows.
esClose(state) == "closed"

\* WebSocket.close(): a socket that is connecting or open starts closing and
\* reports its close later; close() on a closing or closed socket does nothing.
wsClose(state) == IF state \in {"connecting", "open"} THEN "closing" ELSE state

\* disconnectRealtime closing and clearing both fields without looking at
\* them: close() on a null field throws and the rest does not run
disconnectRealtime_NoGuards(s) ==
    LET u == stopUiRefresh(s)
    IN  IF u.eventSource = 0 \/ u.ws = 0
        THEN [u EXCEPT !.uncaught = TRUE]
        ELSE [u EXCEPT !.ess[u.eventSource] = Unreferenced(esClose(@)),
                       !.eventSource = 0,
                       !.wss[u.ws] = Unreferenced(wsClose(@)),
                       !.ws = 0,
                       !.sseConnected = FALSE]

disconnectRealtime(s) ==
    LET u == stopUiRefresh(s)
        e == IF u.eventSource # 0
             THEN [u EXCEPT !.ess[u.eventSource] = Unreferenced(esClose(@)),
                            !.eventSource = 0]
             ELSE u
        w == IF e.ws # 0
             THEN [e EXCEPT !.wss[e.ws] = Unreferenced(wsClose(@)), !.ws = 0]
             ELSE e
    IN  [w EXCEPT !.sseConnected = FALSE]

\* The slot a newly constructed object takes, 0 when there is none.  A new
\* object is never the object `was` that the field referenced when
\* connectRealtime was called.
FreeSlot(objects, was) ==
    LET Free(i) == objects[i] = "none" /\ i # was
    IN  IF \E i \in Slots : Free(i)
        THEN CHOOSE i \in Slots : Free(i) /\ \A j \in 1..(i - 1) : ~Free(j)
        ELSE 0

\* this.eventSource = new EventSource(url), and the handlers set on it
newEventSource(s, was) ==
    LET i == FreeSlot(s.ess, was)
    IN  IF i = 0 THEN [s EXCEPT !.full = TRUE]
        ELSE [s EXCEPT !.ess[i] = "connecting", !.eventSource = i]

\* this.ws = new WebSocket(url), and the handlers set on it
newWebSocket(s, was) ==
    LET i == FreeSlot(s.wss, was)
    IN  IF i = 0 THEN [s EXCEPT !.full = TRUE]
        ELSE [s EXCEPT !.wss[i] = "connecting", !.ws = i]

\* connectRealtime that does not call disconnectRealtime first
connectRealtime_NoTeardown(s, esOk, wsOk) ==
    LET a == IF esOk THEN newEventSource(s, s.eventSource)
             ELSE [s EXCEPT !.sseConnected = FALSE]
        b == IF wsOk THEN newWebSocket(a, s.ws) ELSE a
    IN  IF s.baseUrl = "" THEN s ELSE b

\* connectRealtime without its try blocks: the first constructor that throws
\* ends the call and the exception escapes
connectRealtime_NoCatch(s, esOk, wsOk) ==
    LET d == disconnectRealtime(s)
        a == IF esOk THEN newEventSource(d, s.eventSource)
             ELSE [d EXCEPT !.uncaught = TRUE]
        b == IF ~esOk THEN a
             ELSE IF wsOk THEN newWebSocket(a, s.ws)
             ELSE [a EXCEPT !.uncaught = TRUE]
    IN  IF d.baseUrl = "" THEN d ELSE b

\* esOk, wsOk: whether each constructor returns (TRUE) or throws (FALSE)
connectRealtime(s, esOk, wsOk) ==
    LET d == disconnectRealtime(s)
        a == IF esOk THEN newEventSource(d, s.eventSource)
             ELSE [d EXCEPT !.sseConnected = FALSE]
        b == IF wsOk THEN newWebSocket(a, s.ws) ELSE a
    IN  IF d.baseUrl = "" THEN d ELSE b

\* eventSource.onopen
esOnOpen(s) == [s EXCEPT !.sseConnected = TRUE]

\* eventSource.onerror
esOnError(s) == [s EXCEPT !.sseConnected = FALSE]

\* ws.onopen that raises the flag only when the EventSource is open too
wsOnOpen_WhenSseOpen(s) ==
    IF s.eventSource # 0 /\ s.ess[s.eventSource] = "open"
    THEN [s EXCEPT !.sseConnected = TRUE]
    ELSE s

\* ws.onopen
wsOnOpen(s) == [s EXCEPT !.sseConnected = TRUE]

\* ws.onclose that connects again by itself
wsOnClose_Reconnect(s) == connectRealtime(s, TRUE, TRUE)

\* ws.onclose that leaves the flag as it is
wsOnClose_Keep(s) == s

\* ws.onclose
wsOnClose(s) ==
    IF s.eventSource = 0 \/ s.ess[s.eventSource] # "open"
    THEN [s EXCEPT !.sseConnected = FALSE]
    ELSE s

\* ws.onerror
wsOnError(s) ==
    IF s.eventSource = 0 \/ s.ess[s.eventSource] # "open"
    THEN [s EXCEPT !.sseConnected = FALSE]
    ELSE s

----------------------------------------------------------------------------
(* Device management *)

isReading(s) == s.readerStatus = "reading"

loadReaders(s) ==
    IF s.baseUrl = "" THEN s
    ELSE Request([s EXCEPT !.loading = TRUE, !.error = ""], "readers")

loadAntennas(s) ==
    IF s.baseUrl = "" THEN s ELSE Request(s, "antennas")

refreshStatus(s) ==
    IF s.selectedReaderId = ""
    THEN [s EXCEPT !.readerStatus = "null"]
    ELSE Request(s, "status")

\* getReaderStatus(...).subscribe next
statusNext(s, st, esOk, wsOk) ==
    LET r == [s EXCEPT !.readerStatus = st]
    IN  IF st = "reading" /\ ~r.sseConnected
        THEN startUiRefresh(connectRealtime(r, esOk, wsOk))
        ELSE r

\* getReaders().subscribe next
readersNext(s, list) ==
    LET r == [s EXCEPT !.readers = list]
        p == IF Len(list) > 0 /\ r.selectedReaderId = ""
             THEN restartStatusPolling([r EXCEPT !.selectedReaderId = list[1]])
             ELSE r
    IN  [refreshStatus(p) EXCEPT !.loading = FALSE]

\* a failure of the reader list that starts the screen afresh
readersError_ClearsReads(s) ==
    [s EXCEPT !.error = "Error al cargar lectores", !.loading = FALSE,
              !.tagCounts = <<>>, !.totalReads = 0]

readersError(s) == [s EXCEPT !.error = "Error al cargar lectores", !.loading = FALSE]

ngOnInit(s) == loadAntennas(loadReaders(s))

\* ngOnDestroy that leaves the status poll running
ngOnDestroy_KeepPolling(s) == disconnectRealtime(stopUiRefresh(s))

ngOnDestroy(s) == disconnectRealtime(stopUiRefresh(stopStatusPolling(s)))

saveBaseUrl(s, url) ==
    loadAntennas(loadReaders([s EXCEPT !.baseUrl = ensureAbsoluteUrl(url), !.error = ""]))

onReaderChange(s) == restartStatusPolling(refreshStatus(s))

startReading(s, esOk, wsOk) ==
    Request(startUiRefresh(connectRealtime([s EXCEPT !.error = ""], esOk, wsOk)), "start")

stopReading(s) == Request([s EXCEPT !.error = ""], "stop")

\* stopReader(...).subscribe next
stopNext(s) == disconnectRealtime(stopUiRefresh(refreshStatus(s)))

----------------------------------------------------------------------------
(* Text.  A string is a sequence of one-character strings. *)

IsSpace(c) == c \in {" ", "\t", "\n", "\r"}

RECURSIVE trimStart(_)
trimStart(str) ==
    IF str # <<>> /\ IsSpace(Head(str)) THEN trimStart(Tail(str)) ELSE str

RECURSIVE trimEnd(_)
trimEnd(str) ==
    IF str # <<>> /\ IsSpace(str[Len(str)])
    THEN trimEnd(SubSeq(str, 1, Len(str) - 1))
    ELSE str

\* a trim of the start only
trim_StartOnly(str) == trimStart(str)

\* String.prototype.trim
trim(str) == trimEnd(trimStart(str))

Digits == <<"0", "1", "2", "3", "4", "5", "6", "7", "8", "9">>

IsDigit(c) == \E i \in 1..10 : Digits[i] = c

DigitValue(c) == (CHOOSE i \in 1..10 : Digits[i] = c) - 1

HexLetters == {"A", "B", "C", "D", "E", "F", "a", "b", "c", "d", "e", "f"}

\* /^[0-9A-Fa-f\-]+$/
IsHexId(str) ==
    /\ str # <<>>
    /\ \A i \in 1..Len(str) : IsDigit(str[i]) \/ str[i] \in HexLetters \/ str[i] = "-"

\* decimal text of a natural number
RECURSIVE NumberText(_)
NumberText(n) ==
    IF n < 10 THEN <<Digits[n + 1]>>
    ELSE NumberText(n \div 10) \o <<Digits[(n % 10) + 1]>>

----------------------------------------------------------------------------
(* Decoded payloads: the values JSON.parse returns.                        *)
(*   [t |-> "null"]  [t |-> "bool", v |-> b]  [t |-> "num", v |-> n]       *)
(*   [t |-> "str", v |-> text]  [t |-> "arr", v |-> <<values>>]            *)
(*   [t |-> "obj", v |-> <<[k |-> text, v |-> value], ...>>]               *)
(* An object keeps its members in insertion order, which is the order      *)
(* Object.values enumerates (the keys of the model are never array         *)
(* indices).  [t |-> "undefined"] is the value of a missing member.        *)

JNull == [t |-> "null"]
JUndefined == [t |-> "undefined"]
JBool(b) == [t |-> "bool", v |-> b]
JNum(n) == [t |-> "num", v |-> n]
JStr(str) == [t |-> "str", v |-> str]
JArr(items) == [t |-> "arr", v |-> items]
JObj(members) == [t |-> "obj", v |-> members]

\* d[key]
Member(d, key) ==
    IF \E i \in 1..Len(d.v) : d.v[i].k = key
    THEN d.v[CHOOSE i \in 1..Len(d.v) : d.v[i].k = key].v
    ELSE JUndefined

\* d[key] = value on an object under construction: a repeated key keeps its
\* place and takes the later value
SetMember(members, key, value) ==
    IF \E i \in 1..Len(members) : members[i].k = key
    THEN [i \in 1..Len(members) |->
            IF members[i].k = key THEN [k |-> key, v |-> value] ELSE members[i]]
    ELSE Append(members, [k |-> key, v |-> value])

\* JavaScript truthiness
Truthy(x) ==
    CASE x.t \in {"null", "undefined"} -> FALSE
      [] x.t = "bool" -> x.v
      [] x.t = "num" -> x.v # 0
      [] x.t = "str" -> x.v # <<>>
      [] OTHER -> TRUE

----------------------------------------------------------------------------
(* JSON.parse, by recursive descent.  A parse result is                    *)
(* [ok |-> BOOLEAN, v |-> value, i |-> position after the value].          *)
(* The grammar is JSON's without string escapes, fractions and exponents:  *)
(* the texts of the model contain no backslash and no "." .                *)

ParseFail == [ok |-> FALSE, v |-> JNull, i |-> 0]

RECURSIVE SkipSpace(_, _)
SkipSpace(txt, i) ==
    IF i <= Len(txt) /\ IsSpace(txt[i]) THEN SkipSpace(txt, i + 1) ELSE i

At(txt, i) == IF i <= Len(txt) THEN txt[i] ELSE "EOF"

Matches(txt, i, word) ==
    /\ i + Len(word) - 1 <= Len(txt)
    /\ SubSeq(txt, i, i + Len(word) - 1) = word

\* position of the closing quote of the string whose content starts at i, or 0
RECURSIVE StringEnd(_, _)
StringEnd(txt, i) ==
    IF i > Len(txt) \/ txt[i] = "\\" \/ txt[i] \in {"\n", "\r", "\t"} THEN 0
    ELSE IF txt[i] = "\"" THEN i
    ELSE StringEnd(txt, i + 1)

ParseString(txt, i) ==
    LET e == StringEnd(txt, i + 1)
    IN  IF At(txt, i) = "\"" /\ e > 0
        THEN [ok |-> TRUE, v |-> JStr(SubSeq(txt, i + 1, e - 1)), i |-> e + 1]
        ELSE ParseFail

RECURSIVE DigitsEnd(_, _)
DigitsEnd(txt, i) ==
    IF i <= Len(txt) /\ IsDigit(txt[i]) THEN DigitsEnd(txt, i + 1) ELSE i

RECURSIVE DigitsValue(_)
DigitsValue(ds) ==
    IF ds = <<>> THEN 0
    ELSE 10 * DigitsValue(SubSeq(ds, 1, Len(ds) - 1)) + DigitValue(ds[Len(ds)])

ParseNumber(txt, i) ==
    LET neg == At(txt, i) = "-"
        b == IF neg THEN i + 1 ELSE i
        e == DigitsEnd(txt, b)
        n == DigitsValue(SubSeq(txt, b, e - 1))
    IN  IF e = b \/ (e - b > 1 /\ txt[b] = "0") \/ At(txt, e) \in {".", "e", "E"}
        THEN ParseFail
        ELSE [ok |-> TRUE, v |-> JNum(IF neg THEN 0 - n ELSE n), i |-> e]

RECURSIVE ParseValue(_, _), ParseElements(_, _, _), ParseMembers(_, _, _)

\* a value at position i, leading white space skipped
ParseValue(txt, i0) ==
    LET i == SkipSpace(txt, i0)
        c == At(txt, i)
    IN  CASE c = "\"" -> ParseString(txt, i)
          [] c = "-" \/ IsDigit(c) -> ParseNumber(txt, i)
          [] Matches(txt, i, <<"t", "r", "u", "e">>) ->
                [ok |-> TRUE, v |-> JBool(TRUE), i |-> i + 4]
          [] Matches(txt, i, <<"f", "a", "l", "s", "e">>) ->
                [ok |-> TRUE, v |-> JBool(FALSE), i |-> i + 5]
          [] Matches(txt, i, <<"n", "u", "l", "l">>) ->
                [ok |-> TRUE, v |-> JNull, i |-> i + 4]
          [] c = "[" ->
                IF At(txt, SkipSpace(txt, i + 1)) = "]"
                THEN [ok |-> TRUE, v |-> JArr(<<>>), i |-> SkipSpace(txt, i + 1) + 1]
                ELSE ParseElements(txt, i + 1, <<>>)
          [] c = "{" ->
                IF At(txt, SkipSpace(txt, i + 1)) = "}"
                THEN [ok |-> TRUE, v |-> JObj(<<>>), i |-> SkipSpace(txt, i + 1) + 1]
                ELSE ParseMembers(txt, i + 1, <<>>)
          [] OTHER -> ParseFail

\* the elements of an array from position i on, after `acc`
ParseElements(txt, i, acc) ==
    LET r == ParseValue(txt, i)
        j == SkipSpace(txt, r.i)
    IN  IF ~r.ok THEN ParseFail
        ELSE IF At(txt, j) = "," THEN ParseElements(txt, j + 1, Append(acc, r.v))
        ELSE IF At(txt, j) = "]"
             THEN [ok |-> TRUE, v |-> JArr(Append(acc, r.v)), i |-> j + 1]
        ELSE ParseFail

\* the members of an object from position i on, after `acc`
ParseMembers(txt, i, acc) ==
    LET k == ParseString(txt, SkipSpace(txt, i))
        c == SkipSpace(txt, k.i)
        r == ParseValue(txt, c + 1)
        j == SkipSpace(txt, r.i)
    IN  IF ~k.ok \/ At(txt, c) # ":" THEN ParseFail
        ELSE IF ~r.ok THEN ParseFail
        ELSE IF At(txt, j) = ","
             THEN ParseMembers(txt, j + 1, SetMember(acc, k.v.v, r.v))
        ELSE IF At(txt, j) = "}"
             THEN [ok |-> TRUE, v |-> JObj(SetMember(acc, k.v.v, r.v)), i |-> j + 1]
        ELSE ParseFail

\* JSON.parse(raw): ok = FALSE when it throws SyntaxError
JsonParse(raw) ==
    LET r == ParseValue(raw, 1)
    IN  IF r.ok /\ SkipSpace(raw, r.i) = Len(raw) + 1 THEN r ELSE ParseFail

----------------------------------------------------------------------------
(* Tag identifier extractor.  none (null) is the empty text: every id the  *)
(* extractor returns is a non-empty trimmed text.                          *)

none == <<>>

(* Key names *)

K_epc == <<"e", "p", "c">>
K_tagId == <<"t", "a", "g", "I", "d">>
K_tag_id == <<"t", "a", "g", "_", "i", "d">>
K_id == <<"i", "d">>
K_tagEPC == <<"t", "a", "g", "E", "P", "C">>
K_EPC == <<"E", "P", "C">>
K_tag == <<"t", "a", "g">>
K_tags == <<"t", "a", "g", "s">>
K_data == <<"d", "a", "t", "a">>
K_raw == <<"r", "a", "w">>

\* the preferred keys with tagId ahead of epc
preferidos_TagIdFirst == <<K_tagId, K_epc, K_tag_id, K_id, K_tagEPC, K_EPC>>

preferidos == <<K_epc, K_tagId, K_tag_id, K_id, K_tagEPC, K_EPC>>

\* the first non-empty trimmed string member among the preferred keys
RECURSIVE firstPreferido(_, _)
firstPreferido(d, i) ==
    IF i > Len(preferidos) THEN none
    ELSE LET v == Member(d, preferidos[i])
         IN  IF v.t = "str" /\ trim(v.v) # <<>> THEN trim(v.v)
             ELSE firstPreferido(d, i + 1)

RECURSIVE extractTagId(_), firstTagId(_, _)

\* for (const x of items) { const id = extractTagId(x); if (id) return id }
firstTagId(items, i) ==
    IF i > Len(items) THEN none
    ELSE LET id == extractTagId(items[i])
         IN  IF id # none THEN id ELSE firstTagId(items, i + 1)

extractTagId(data) ==
    CASE data.t \in {"null", "undefined"} -> none
      [] data.t = "str" ->
            LET s == trim(data.v)
            IN  IF Len(s) >= 6 /\ IsHexId(s) THEN s
                ELSE IF Len(s) > 0 THEN s
                ELSE none
      [] data.t = "arr" -> firstTagId(data.v, 1)
      [] data.t = "obj" ->
            LET pref == firstPreferido(data, 1)
                tag == Member(data, K_tag)
                tags == Member(data, K_tags)
                dat == Member(data, K_data)
                fromTag == IF Truthy(tag) THEN extractTagId(tag) ELSE none
                fromTags == IF tags.t = "arr" THEN firstTagId(tags.v, 1) ELSE none
                fromData == IF Truthy(dat) THEN extractTagId(dat) ELSE none
                values == [i \in 1..Len(data.v) |-> data.v[i].v]
            IN  IF pref # none THEN pref
                ELSE IF fromTag # none THEN fromTag
                ELSE IF fromTags # none THEN fromTags
                ELSE IF fromData # none THEN fromData
                ELSE firstTagId(values, 1)
      [] OTHER -> none

InSeq(x, seq) == \E i \in 1..Len(seq) : seq[i] = x

\* an add that does not look at the ids seen
add_NoDedup(ids, id) ==
    IF id # none /\ Len(id) >= 4 THEN Append(ids, id) ELSE ids

\* an add that takes ids of any length
add_AnyLength(ids, id) ==
    IF id # none /\ Len(id) >= 1 /\ ~InSeq(id, ids) THEN Append(ids, id) ELSE ids

\* add(id): the ids accepted so far, with id appended when it qualifies
add(ids, id) ==
    IF id # none /\ Len(id) >= 4 /\ ~InSeq(id, ids) THEN Append(ids, id) ELSE ids

RECURSIVE addEach(_, _, _)
addEach(ids, items, i) ==
    IF i > Len(items) THEN ids
    ELSE addEach(add(ids, extractTagId(items[i])), items, i + 1)

extractAllTagIds(data) ==
    LET main == add(<<>>, extractTagId(data))
        tags == IF data.t = "obj" THEN Member(data, K_tags) ELSE JUndefined
    IN  IF tags.t = "arr" THEN addEach(main, tags.v, 1) ELSE main

----------------------------------------------------------------------------
(* Read aggregator *)

maxEvents == 200

\* this.tagCounts.get(tagId): the index of the record, 0 when absent
tagIndex(counts, tagId) ==
    IF \E i \in 1..Len(counts) : counts[i].id = tagId
    THEN CHOOSE i \in 1..Len(counts) : counts[i].id = tagId
    ELSE 0

\* one turn of the loop that leaves lastSeen of an existing record alone
countTag_KeepLastSeen(s, tagId, now) ==
    LET i == tagIndex(s.tagCounts, tagId)
    IN  IF i # 0
        THEN [s EXCEPT !.totalReads = @ + 1, !.tagCounts[i].count = @ + 1]
        ELSE [s EXCEPT !.totalReads = @ + 1,
                       !.tagCounts = Append(@, [id |-> tagId, count |-> 1,
                                                lastSeen |-> now])]

\* one turn of the loop that keeps only the record of the tag just read
countTag_OnlyLast(s, tagId, now) ==
    LET i == tagIndex(s.tagCounts, tagId)
        n == IF i # 0 THEN s.tagCounts[i].count + 1 ELSE 1
    IN  [s EXCEPT !.totalReads = @ + 1,
                  !.tagCounts = <<[id |-> tagId, count |-> n, lastSeen |-> now]>>]

\* one turn of the loop over tagIds
countTag(s, tagId, now) ==
    LET i == tagIndex(s.tagCounts, tagId)
    IN  IF i # 0
        THEN [s EXCEPT !.totalReads = @ + 1,
                       !.tagCounts[i].count = @ + 1,
                       !.tagCounts[i].lastSeen = now]
        ELSE [s EXCEPT !.totalReads = @ + 1,
                       !.tagCounts = Append(@, [id |-> tagId, count |-> 1,
                                                lastSeen |-> now])]

RECURSIVE countTags(_, _, _, _)
countTags(s, tagIds, i, now) ==
    IF i > Len(tagIds) THEN s
    ELSE countTags(countTag(s, tagIds[i], now), tagIds, i + 1, now)

\* a decoding that drops the text it cannot parse
decode_Drop(raw) ==
    LET r == JsonParse(raw)
    IN  IF r.ok THEN r.v ELSE JObj(<<>>)

\* try { data = JSON.parse(raw) } catch { data = { raw } }
decode(raw) ==
    LET r == JsonParse(raw)
    IN  IF r.ok THEN r.v ELSE JObj(<<[k |-> K_raw, v |-> JStr(raw)]>>)

\* a log that takes the new entry at its end: events.push(entry)
logEvent_Push(log, entry) ==
    LET u == log \o <<entry>>
    IN  IF Len(u) > maxEvents THEN SubSeq(u, 1, Len(u) - 1) ELSE u

\* events.unshift(entry); if (events.length > maxEvents) events.pop()
logEvent(log, entry) ==
    LET u == <<entry>> \o log
    IN  IF Len(u) > maxEvents THEN SubSeq(u, 1, Len(u) - 1) ELSE u

\* a processEvent that logs a text it cannot parse and counts nothing for it
processEvent_SkipUnparsed(s, raw, now) ==
    LET data == decode(raw)
        e == [s EXCEPT !.eventsReceived = @ + 1,
                       !.events = logEvent(@, [time |-> now, data |-> data])]
    IN  IF JsonParse(raw).ok THEN countTags(e, extractAllTagIds(data), 1, now) ELSE e

\* a processEvent that counts the tags of each message into a new table
processEvent_FreshTable(s, raw, now) ==
    LET data == decode(raw)
        e == [s EXCEPT !.eventsReceived = @ + 1,
                       !.events = logEvent(@, [time |-> now, data |-> data]),
                       !.tagCounts = <<>>]
    IN  countTags(e, extractAllTagIds(data), 1, now)

processEvent(s, raw, now) ==
    LET data == decode(raw)
        e == [s EXCEPT !.eventsReceived = @ + 1,
                       !.events = logEvent(@, [time |-> now, data |-> data])]
    IN  countTags(e, extractAllTagIds(data), 1, now)

\* a clearing of the log that also clears the tag table
clearEvents_AndTags(s) ==
    [s EXCEPT !.events = <<>>, !.tagCounts = <<>>, !.totalReads = 0]

clearEvents(s) == [s EXCEPT !.events = <<>>]

\* a clearing of the table that keeps the total
clearTags_KeepTotal(s) == [s EXCEPT !.tagCounts = <<>>]

clearTags(s) == [s EXCEPT !.tagCounts = <<>>, !.totalReads = 0]

----------------------------------------------------------------------------
(* Initial state: the component and the RfidApi service just constructed.  *)
(* The base address comes from local storage or the environment file and   *)
(* may be empty.                                                           *)

NoRequests == [k \in RequestKinds |-> FALSE]

\* the case list, its form and the simulated read as constructed, with
\* nothing in local storage
NoCases ==
    /\ maletas = <<>>
    /\ storage = <<>>
    /\ newMaletaMasterRfid = <<>>
    /\ newMaletaProductRfids = <<>>
    /\ newProductRfidInput = <<>>
    /\ simulatedReadInput = <<>>
    /\ showSimulatedRead = TRUE
    /\ imported = "none"

retryIntervalSeconds == 15

\* the retry fields as constructed (and in Lectura, which has no retry)
NoRetry ==
    /\ retryCountdown = 0
    /\ retryTimer = FALSE
    /\ retryTimers = 0

\* the retry fields of Maleta while a reader list is shown: ngOnInit has
\* scheduled the interval and every tick puts the countdown back to the top
RetryIdle ==
    /\ retryCountdown = retryIntervalSeconds
    /\ retryTimer = TRUE
    /\ retryTimers = 1

Init ==
    /\ baseUrl \in {"", "http://gw"}
    /\ selectedReaderId = ""
    /\ readers = <<>>
    /\ readerStatus = "null"
    /\ loading = FALSE
    /\ error = ""
    /\ statusPolling = FALSE
    /\ uiRefreshInterval = FALSE
    /\ timers = [status |-> 0, ui |-> 0]
    /\ eventSource = 0
    /\ ws = 0
    /\ ess = [i \in Slots |-> "none"]
    /\ wss = [i \in Slots |-> "none"]
    /\ sseConnected = FALSE
    /\ pending = NoRequests
    /\ uncaught = FALSE
    /\ phase = "constructed"
    /\ antennas = <<>>
    /\ events = <<>>
    /\ eventsReceived = 0
    /\ tagCounts = <<>>
    /\ totalReads = 0
    /\ clock = 0
    /\ fed = <<>>
    /\ reads = <<>>
    /\ NoCases
    /\ NoRetry

----------------------------------------------------------------------------
(* Actions: one per handler.  Ran(n) is a step in which a handler ran and  *)
(* left the component as n; a step that would exceed a bound of the model  *)
(* is not taken.                                                           *)

Ran(n) ==
    /\ InBounds(n)
    /\ Becomes(n)
    /\ UNCHANGED <<clock, fed, reads, caseVars>>

\* The component as a response of kind k finds it; more = another request of
\* the kind is still in flight.
Answered(k, more) == [This EXCEPT !.pending[k] = more]

ReaderLists == {<<>>, <<"r1">>}
AntennaLists == {<<>>, <<"a1">>}

NgOnInit ==
    /\ phase = "constructed"
    /\ Ran([ngOnInit(This) EXCEPT !.phase = "active"])

NgOnDestroy ==
    /\ phase = "active"
    /\ Ran([ngOnDestroy(This) EXCEPT !.phase = "destroyed"])

SaveBaseUrl ==
    /\ phase = "active"
    /\ \E url \in UrlInputs : Ran(saveBaseUrl(This, url))

\* the operator picks another entry of the reader list (or none)
OnReaderChange ==
    /\ phase = "active"
    /\ \E r \in {""} \cup {readers[i] : i \in 1..Len(readers)} :
          /\ r # selectedReaderId
          /\ Ran(onReaderChange([This EXCEPT !.selectedReaderId = r]))

StartReading ==
    /\ phase = "active"
    /\ selectedReaderId # ""
    /\ ~isReading(This)
    /\ \E esOk, wsOk \in BOOLEAN : Ran(startReading(This, esOk, wsOk))

StopReading ==
    /\ phase = "active"
    /\ selectedReaderId # ""
    /\ Ran(stopReading(This))

ReadersNext ==
    /\ pending["readers"]
    /\ \E more \in BOOLEAN, list \in ReaderLists :
          Ran(readersNext(Answered("readers", more), list))

ReadersError ==
    /\ pending["readers"]
    /\ \E more \in BOOLEAN : Ran(readersError(Answered("readers", more)))

AntennasNext ==
    /\ pending["antennas"]
    /\ \E more \in BOOLEAN, list \in AntennaLists :
          Ran([Answered("antennas", more) EXCEPT !.antennas = list])

AntennasError ==
    /\ pending["antennas"]
    /\ \E more \in BOOLEAN :
          Ran([Answered("antennas", more) EXCEPT !.antennas = <<>>])

StatusNextOf(st) ==
    /\ pending["status"]
    /\ \E more, esOk, wsOk \in BOOLEAN :
          Ran(statusNext(Answered("status", more), st, esOk, wsOk))

StatusNext == \E st \in {"reading", "idle"} : StatusNextOf(st)

StatusError ==
    /\ pending["status"]
    /\ \E more \in BOOLEAN :
          Ran([Answered("status", more) EXCEPT !.readerStatus = "null"])

StartNext ==
    /\ pending["start"]
    /\ \E more \in BOOLEAN : Ran(refreshStatus(Answered("start", more)))

StartError ==
    /\ pending["start"]
    /\ \E more \in BOOLEAN : Ran([Answered("start", more) EXCEPT !.error = "Error"])

StopNext ==
    /\ pending["stop"]
    /\ \E more \in BOOLEAN : Ran(stopNext(Answered("stop", more)))

StopError ==
    /\ pending["stop"]
    /\ \E more \in BOOLEAN : Ran([Answered("stop", more) EXCEPT !.error = "Error"])

\* the status-poll interval fires
StatusPollTick ==
    /\ timers.status > 0
    /\ Ran(refreshStatus(This))

\* the presentation-refresh interval fires: cdr.detectChanges()
UiRefreshTick ==
    /\ timers.ui > 0
    /\ Ran(This)

\* the readyState of object i after its connection ended
Ended(ref, i) == IF ref = i THEN "closed" ELSE "none"

\* EventSource i, connecting, reports open.
EsOpenOf(i) ==
    /\ ess[i] = "connecting"
    /\ Ran(esOnOpen([This EXCEPT !.ess[i] = "open"]))

EsOpen == \E i \in Slots : EsOpenOf(i)

\* EventSource i loses its connection: the browser either retries
\* (readyState CONNECTING) or gives up (readyState CLOSED), and reports error.
EsErrorOf(i) ==
    /\ ess[i] \in {"connecting", "open"}
    /\ \E after \in {"connecting", "closed"} :
          Ran(esOnError([This EXCEPT !.ess[i] =
                IF after = "closed" THEN Ended(eventSource, i) ELSE after]))

EsError == \E i \in Slots : EsErrorOf(i)

\* WebSocket i, connecting, reports open.
WsOpenOf(i) ==
    /\ wss[i] = "connecting"
    /\ Ran(wsOnOpen([This EXCEPT !.wss[i] = "open"]))

WsOpen == \E i \in Slots : WsOpenOf(i)

\* WebSocket i closes cleanly (by the server, or after close()): close event.
WsClosedOf(i) ==
    /\ wss[i] \in {"open", "closing"}
    /\ Ran(wsOnClose([This EXCEPT !.wss[i] = Ended(ws, i)]))

WsClosed == \E i \in Slots : WsClosedOf(i)

\* WebSocket i fails: readyState CLOSED, then the error event and the close
\* event in the same task.
WsFailedOf(i) ==
    /\ wss[i] \in {"connecting", "open", "closing"}
    /\ Ran(wsOnClose(wsOnError([This EXCEPT !.wss[i] = Ended(ws, i)])))

WsFailed == \E i \in Slots : WsFailedOf(i)

----------------------------------------------------------------------------
(* Inbound messages *)

\* listeners in which 'tag' events reach processEvent twice
esListeners_TagTwice == <<"message", "tag", "tag", "detection", "event">>

\* The listeners connectRealtime sets on an EventSource, by event type:
\* onmessage, then addEventListener('tag' | 'detection' | 'event').  Each
\* calls processEvent(ev.data).
esListeners == <<"message", "tag", "detection", "event">>

\* The event types the server sends; "ping" stands for any other name.
EsEventTypes == {"message", "tag", "detection", "event", "ping"}

\* The browser dispatches an event to every listener of its type.
RECURSIVE dispatch(_, _, _, _, _, _)
dispatch(s, listeners, i, type, raw, now) ==
    IF i > Len(listeners) THEN s
    ELSE dispatch(IF listeners[i] = type THEN processEvent(s, raw, now) ELSE s,
                  listeners, i + 1, type, raw, now)

\* A step in which a message with text raw arrived for a handler and left
\* the component as n.
Received(raw, n) ==
    /\ InBounds(n)
    /\ Becomes(n)
    /\ fed' = Append(fed, raw)
    /\ reads' = Append(reads, [raw |-> raw, time |-> clock])
    /\ UNCHANGED <<clock, caseVars>>

ListenedTypes == {"message", "tag", "detection", "event"}

\* An open EventSource delivers an event of the given type carrying the text
\* raw; cap bounds the messages of a run.
EsMessageOf(type, raw, cap) ==
    /\ eventsReceived < cap
    /\ \E i \in Slots : ess[i] = "open"
    /\ IF type \in ListenedTypes
       THEN Received(raw, dispatch(This, esListeners, 1, type, raw, clock))
       ELSE Ran(dispatch(This, esListeners, 1, type, raw, clock))

EsMessage(Msgs, cap) ==
    \E type \in EsEventTypes, raw \in Msgs : EsMessageOf(type, raw, cap)

\* An open WebSocket delivers a message with the text raw: ws.onmessage
WsMessageOf(raw, cap) ==
    /\ eventsReceived < cap
    /\ \E i \in Slots : wss[i] = "open"
    /\ Received(raw, processEvent(This, raw, clock))

WsMessage(Msgs, cap) == \E raw \in Msgs : WsMessageOf(raw, cap)

ClearEvents ==
    /\ phase = "active"
    /\ Becomes(clearEvents(This))
    /\ fed' = <<>>
    /\ UNCHANGED <<clock, reads, caseVars>>

ClearTags ==
    /\ phase = "active"
    /\ Becomes(clearTags(This))
    /\ reads' = <<>>
    /\ UNCHANGED <<clock, fed, caseVars>>

\* time passes
Tick ==
    /\ clock < MaxClock
    /\ clock' = clock + 1
    /\ Becomes(This)
    /\ UNCHANGED <<fed, reads, caseVars>>

----------------------------------------------------------------------------
(* Specification of the realtime channel, the timers and the life cycle,   *)
(* in an environment where the reader list, start and stop calls succeed   *)
(* and no message arrives.                                                 *)

Next ==
    \/ NgOnInit \/ NgOnDestroy \/ SaveBaseUrl \/ OnReaderChange
    \/ StartReading \/ StopReading
    \/ ReadersNext \/ StatusNext \/ StatusError \/ StartNext \/ StopNext
    \/ StatusPollTick \/ UiRefreshTick
    \/ EsOpen \/ EsError \/ WsOpen \/ WsClosed \/ WsFailed

Spec == Init /\ [][Next]_vars

----------------------------------------------------------------------------
(* Specifications of the read aggregator.  They start where a reader is    *)
(* selected and reading and the channel is connected, a state Spec         *)
(* reaches, with at least one transport open.                              *)

\* a reader is selected and reading, the channel connected, nothing received
ReadingNow ==
    /\ baseUrl = "http://gw"
    /\ selectedReaderId = "r1"
    /\ readers = <<"r1">>
    /\ readerStatus = "reading"
    /\ loading = FALSE
    /\ error = ""
    /\ statusPolling = TRUE
    /\ uiRefreshInterval = TRUE
    /\ timers = [status |-> 1, ui |-> 1]
    /\ eventSource = 1
    /\ ws = 1
    /\ \E e, w \in {"connecting", "open"} :
          /\ "open" \in {e, w}
          /\ ess = [i \in Slots |-> IF i = 1 THEN e ELSE "none"]
          /\ wss = [i \in Slots |-> IF i = 1 THEN w ELSE "none"]
    /\ sseConnected = TRUE
    /\ pending = [NoRequests EXCEPT !["antennas"] = TRUE]
    /\ uncaught = FALSE
    /\ phase = "active"
    /\ antennas = <<>>
    /\ events = <<>>
    /\ eventsReceived = 0
    /\ tagCounts = <<>>
    /\ totalReads = 0
    /\ clock = 0
    /\ fed = <<>>
    /\ reads = <<>>

InitReading == ReadingNow /\ NoCases /\ NoRetry

\* The texts the aggregator specification receives
M_epcA == <<"{", "\"", "e", "p", "c", "\"", ":", "\"", "A", "A", "A", "A", "\"", "}">>
M_tagsAB == <<"{", "\"", "e", "p", "c", "\"", ":", "\"", "A", "A", "A", "A", "\"", ",", "\"", "t", "a", "g", "s", "\"", ":", "[", "{", "\"", "i", "d", "\"", ":", "\"", " ", "A", "A", "A", "A", "\"", "}", ",", "{", "\"", "i", "d", "\"", ":", "\"", "B", "B", "B", "B", "\"", "}", "]", "}">>
M_oops == <<"o", "o", "p", "s">>
M_short == <<" ", "x", "{">>
M_seven == <<"7">>

AggMessages == {M_epcA, M_tagsAB, M_oops, M_short, M_seven}

NextAgg ==
    \/ EsMessage(AggMessages, MaxAggEvents)
    \/ WsMessage(AggMessages, MaxAggEvents)
    \/ ClearEvents \/ ClearTags \/ Tick

SpecAgg == InitReading /\ [][NextAgg]_vars

\* The event-log specification receives numbered messages: the text of the
\* n-th message is the decimal text of n.
NextLog ==
    \/ EsMessage({NumberText(eventsReceived + 1)}, MaxLogEvents)
    \/ WsMessage({NumberText(eventsReceived + 1)}, MaxLogEvents)
    \/ ClearEvents

SpecLog == InitReading /\ [][NextLog]_vars

\* The extractor specification receives payloads of every shape: each text
\* is decoded, logged and handed to extractAllTagIds by processEvent.
ExtractMessages ==
    { \* an epc among every other key the extractor looks at: {"epc":" AAAA ","tagId":"CCCC","tag":{"id":"DDDD"},"tags":[{"id":"EEEE"}],"data":{"id":"FFFF"}}
      <<"{", "\"", "e", "p", "c", "\"", ":", "\"", " ", "A", "A", "A", "A", " ", "\"", ",", "\"", "t", "a", "g", "I", "d", "\"", ":", "\"", "C", "C", "C", "C", "\"", ",", "\"", "t", "a", "g", "\"", ":", "{", "\"", "i", "d", "\"", ":", "\"", "D", "D", "D", "D", "\"", "}", ",", "\"", "t", "a", "g", "s", "\"", ":", "[", "{", "\"", "i", "d", "\"", ":", "\"", "E", "E", "E", "E", "\"", "}", "]", ",", "\"", "d", "a", "t", "a", "\"", ":", "{", "\"", "i", "d", "\"", ":", "\"", "F", "F", "F", "F", "\"", "}", "}">>,
      \* an epc written after another preferred key: {"tagId":"CCCC","epc":"AAAA"}
      <<"{", "\"", "t", "a", "g", "I", "d", "\"", ":", "\"", "C", "C", "C", "C", "\"", ",", "\"", "e", "p", "c", "\"", ":", "\"", "A", "A", "A", "A", "\"", "}">>,
      \* an epc of spaces only: {"epc":"  ","id":"BBBB"}
      <<"{", "\"", "e", "p", "c", "\"", ":", "\"", " ", " ", "\"", ",", "\"", "i", "d", "\"", ":", "\"", "B", "B", "B", "B", "\"", "}">>,
      \* an epc that is not a string: {"epc":7,"EPC":"BBBB"}
      <<"{", "\"", "e", "p", "c", "\"", ":", "7", ",", "\"", "E", "P", "C", "\"", ":", "\"", "B", "B", "B", "B", "\"", "}">>,
      \* an epc repeated by the first of two tags: {"epc":"AAAA1111","tags":[{"id":"AAAA1111"},{"id":"BBBB2222"}]}
      <<"{", "\"", "e", "p", "c", "\"", ":", "\"", "A", "A", "A", "A", "1", "1", "1", "1", "\"", ",", "\"", "t", "a", "g", "s", "\"", ":", "[", "{", "\"", "i", "d", "\"", ":", "\"", "A", "A", "A", "A", "1", "1", "1", "1", "\"", "}", ",", "{", "\"", "i", "d", "\"", ":", "\"", "B", "B", "B", "B", "2", "2", "2", "2", "\"", "}", "]", "}">>,
      \* tags: a short id, an id twice, null, a text: {"tags":[{"id":"ab"},{"id":"BBBB"},{"id":"BBBB"},null,"CCCC "]}
      <<"{", "\"", "t", "a", "g", "s", "\"", ":", "[", "{", "\"", "i", "d", "\"", ":", "\"", "a", "b", "\"", "}", ",", "{", "\"", "i", "d", "\"", ":", "\"", "B", "B", "B", "B", "\"", "}", ",", "{", "\"", "i", "d", "\"", ":", "\"", "B", "B", "B", "B", "\"", "}", ",", "n", "u", "l", "l", ",", "\"", "C", "C", "C", "C", " ", "\"", "]", "}">>,
      \* tags that is not a list: {"tags":"AAAA"}
      <<"{", "\"", "t", "a", "g", "s", "\"", ":", "\"", "A", "A", "A", "A", "\"", "}">>,
      \* falsy tag and data, an id two maps down: {"tag":0,"data":"","x":{"y":" z "}}
      <<"{", "\"", "t", "a", "g", "\"", ":", "0", ",", "\"", "d", "a", "t", "a", "\"", ":", "\"", "\"", ",", "\"", "x", "\"", ":", "{", "\"", "y", "\"", ":", "\"", " ", "z", " ", "\"", "}", "}">>,
      \* lists in lists: [[],[null,{"a":{"b":[false,"DDDD"]}}]]
      <<"[", "[", "]", ",", "[", "n", "u", "l", "l", ",", "{", "\"", "a", "\"", ":", "{", "\"", "b", "\"", ":", "[", "f", "a", "l", "s", "e", ",", "\"", "D", "D", "D", "D", "\"", "]", "}", "}", "]", "]">>,
      \* a text with spaces around and inside: " x y "
      <<"\"", " ", "x", " ", "y", " ", "\"">>,
      \* null: null
      <<"n", "u", "l", "l">>,
      \* a number: 7
      <<"7">>,
      \* a boolean: true
      <<"t", "r", "u", "e">>,
      \* an empty map: {}
      <<"{", "}">>,
      \* an empty list: []
      <<"[", "]">>,
      \* an empty text: ""
      <<"\"", "\"">>,
      \* not JSON: oops
      <<"o", "o", "p", "s">> }

NextExtract ==
    \/ EsMessage(ExtractMessages, MaxExtractEvents)
    \/ WsMessage(ExtractMessages, MaxExtractEvents)
    \/ ClearEvents \/ ClearTags

SpecExtract == InitReading /\ [][NextExtract]_vars

\* The texts of the specification of unparsable messages: texts that are not
\* JSON, bare and padded with spaces, of 4 or more characters once trimmed
\* and of fewer, and a JSON text
M_padded == <<" ", "o", "o", "p", "s", " ">>
M_abc == <<" ", "a", "b", "c", " ">>

RawMessages == {M_oops, M_padded, M_abc, M_short, M_epcA}

\* messages received in a run of the specification of unparsable messages
MaxRawEvents == 3

NextRaw ==
    \/ EsMessage(RawMessages, MaxRawEvents)
    \/ WsMessage(RawMessages, MaxRawEvents)
    \/ ClearTags

SpecRaw == InitReading /\ [][NextRaw]_vars

----------------------------------------------------------------------------
(* Cases (maletas) and their reconciliation against the reads.  A case is  *)
(* [masterRfid, productRfids, expiredProductRfids]; an absent              *)
(* expiredProductRfids is the empty list, as the code reads it (?? []).    *)

\* cases in the list, and products in the form of a new case
MaxCases == 2
MaxProducts == 2
\* messages received in a run of a case specification
MaxCaseEvents == 1

Range(seq) == {seq[i] : i \in 1..Len(seq)}

NonEmpty(texts) == SelectSeq(texts, LAMBDA x : Len(x) > 0)

Trimmed(texts) == [i \in 1..Len(texts) |-> trim(texts[i])]

Separators == {"\r", "\n", ",", ";"}

\* raw.split(/[\r\n,;]+/): the pieces between runs of separators
RECURSIVE splitRuns(_, _, _, _)
splitRuns(str, i, cur, acc) ==
    IF i > Len(str) THEN Append(acc, cur)
    ELSE IF str[i] \in Separators
         THEN IF i > 1 /\ str[i - 1] \in Separators
              THEN splitRuns(str, i + 1, cur, acc)
              ELSE splitRuns(str, i + 1, <<>>, Append(acc, cur))
         ELSE splitRuns(str, i + 1, Append(cur, str[i]), acc)

simulatedReadTags(input) ==
    LET raw == trim(input)
    IN  IF raw = <<>> THEN <<>>
        ELSE NonEmpty(Trimmed(splitRuns(raw, 1, <<>>, <<>>)))

\* the tags taken as read: the simulated text or the keys of tagCounts
effectiveReadTags ==
    IF showSimulatedRead THEN simulatedReadTags(simulatedReadInput)
    ELSE [i \in 1..Len(tagCounts) |-> tagCounts[i].id]

\* [m.masterRfid, ...m.productRfids].map((s) => s.trim())
expectedOf(m) == Trimmed(<<m.masterRfid>> \o m.productRfids)

getExpectedTagUnion(ms) ==
    UNION {Range(expectedOf(ms[i])) : i \in 1..Len(ms)} \ {<<>>}

hasUnknownTagRead(ms, read) ==
    IF Len(ms) = 0 THEN FALSE
    ELSE \E i \in 1..Len(read) :
            Len(read[i]) > 0 /\ read[i] \notin getExpectedTagUnion(ms)

\* Array.from(new Set(...)): the first occurrence of each text, in order
RECURSIVE distinct(_, _, _)
distinct(texts, i, acc) ==
    IF i > Len(texts) THEN acc
    ELSE distinct(texts, i + 1,
                  IF texts[i] \in Range(acc) THEN acc ELSE Append(acc, texts[i]))

\* the unlisted reads with their repetitions
extraUnlistedTags_Repeated(ms, read) ==
    IF Len(ms) = 0 THEN <<>>
    ELSE SelectSeq(read, LAMBDA r : Len(r) > 0 /\ r \notin getExpectedTagUnion(ms))

extraUnlistedTags(ms, read) ==
    IF Len(ms) = 0 THEN <<>>
    ELSE distinct(SelectSeq(read, LAMBDA r :
                     Len(r) > 0 /\ r \notin getExpectedTagUnion(ms)), 1, <<>>)

\* the missing products, the master tag left out
getMaletaMissing_Products(m, read) ==
    SelectSeq(Trimmed(m.productRfids), LAMBDA e : e \notin Range(read))

getMaletaMissing(m, read) ==
    SelectSeq(expectedOf(m), LAMBDA e : e \notin Range(read))

\* a status that looks at the reads before the expired products
getMaletaStatus_ReadsFirst(m, read) ==
    IF SelectSeq(NonEmpty(expectedOf(m)), LAMBDA e : e \notin Range(read)) # <<>>
    THEN "blue"
    ELSE IF Len(m.expiredProductRfids) > 0 THEN "red"
    ELSE "green"

getMaletaStatus(m, read) ==
    IF Len(m.expiredProductRfids) > 0 THEN "red"
    ELSE IF SelectSeq(NonEmpty(expectedOf(m)), LAMBDA e : e \notin Range(read)) # <<>>
         THEN "blue"
         ELSE "green"

\* a progress that counts the distinct expected tags read
getMaletaProgress_Distinct(m, read) ==
    [read |-> Cardinality(Range(expectedOf(m)) \cap Range(read)),
     total |-> Len(expectedOf(m))]

\* getMaletaProgress: how many entries of the expected list were read
getMaletaProgress(m, read) ==
    [read |-> Len(SelectSeq(expectedOf(m), LAMBDA e : e \in Range(read))),
     total |-> Len(expectedOf(m))]

\* an aggregate status that puts incomplete cases before unlisted reads
generalSemaphoreStatus_BlueFirst(ms, read) ==
    LET statuses == {getMaletaStatus(ms[i], read) : i \in 1..Len(ms)}
    IN  IF Len(ms) = 0 THEN "green"
        ELSE IF "red" \in statuses THEN "red"
        ELSE IF "blue" \in statuses THEN "blue"
        ELSE IF hasUnknownTagRead(ms, read) THEN "yellow"
        ELSE "green"

generalSemaphoreStatus(ms, read) ==
    LET statuses == {getMaletaStatus(ms[i], read) : i \in 1..Len(ms)}
    IN  IF Len(ms) = 0 THEN "green"
        ELSE IF "red" \in statuses THEN "red"
        ELSE IF hasUnknownTagRead(ms, read) THEN "yellow"
        ELSE IF "yellow" \in statuses THEN "yellow"
        ELSE IF "blue" \in statuses THEN "blue"
        ELSE "green"

\* the expired list of m after toggling rfid; id is never empty here
toggleProductExpired(m, rfid) ==
    LET id == trim(rfid)
        list == m.expiredProductRfids
    IN  IF id \in Range(list)
        THEN LET idx == CHOOSE i \in 1..Len(list) :
                            list[i] = id /\ \A j \in 1..(i - 1) : list[j] # id
             IN  [i \in 1..(Len(list) - 1) |-> IF i < idx THEN list[i] ELSE list[i + 1]]
        ELSE Append(list, id)

----------------------------------------------------------------------------
(* Text format of the case list *)

TXT_MAESTRO_PREFIX == <<"M", "A", "E", "S", "T", "R", "O", " ">>

\* the two comment lines that head the file (accents left out)
TXT_HEADER_1 == <<"#", " ", "M", "a", "l", "e", "t", "a", "s", " ", "-", " ", "q", "u", "e", " ", "h", "a", "y", " ", "q", "u", "e", " ", "l", "e", "e", "r">>
TXT_HEADER_2 == <<"#", " ", "M", "A", "E", "S", "T", "R", "O", " ", "=", " ", "R", "F", "I", "D", " ", "d", "e", " ", "l", "a", " ", "m", "a", "l", "e", "t", "a", ".", " ", "L", "i", "n", "e", "a", "s", " ", "d", "e", "b", "a", "j", "o", " ", "=", " ", "p", "r", "o", "d", "u", "c", "t", "o", "s", " ", "h", "a", "s", "t", "a", " ", "e", "l", " ", "p", "r", "o", "x", "i", "m", "o", " ", "M", "A", "E", "S", "T", "R", "O", ".">>

startsWith(str, word) == Len(word) <= Len(str) /\ SubSeq(str, 1, Len(word)) = word

\* lines.join('\n')
RECURSIVE join(_, _)
join(lines, i) ==
    IF i > Len(lines) THEN <<>>
    ELSE IF i = Len(lines) THEN lines[i]
    ELSE lines[i] \o <<"\n">> \o join(lines, i + 1)

\* the lines of the cases from the i-th on
RECURSIVE caseLines(_, _)
caseLines(ms, i) ==
    IF i > Len(ms) THEN <<>>
    ELSE <<TXT_MAESTRO_PREFIX \o ms[i].masterRfid>> \o Trimmed(ms[i].productRfids)
         \o << <<>> >> \o caseLines(ms, i + 1)

\* the text exportMaletasToTxt puts in the file
exportMaletasToTxt(ms) ==
    join(<<TXT_HEADER_1, TXT_HEADER_2, <<>> >> \o caseLines(ms, 1), 1)

\* text.split(/\r?\n/): the pieces between line ends, a line end being a
\* line feed with the carriage return before it, if any
RECURSIVE splitLines(_)
splitLines(str) ==
    IF \A i \in 1..Len(str) : str[i] # "\n" THEN <<str>>
    ELSE LET k == CHOOSE i \in 1..Len(str) :
                     str[i] = "\n" /\ \A j \in 1..(i - 1) : str[j] # "\n"
             e == IF k > 1 /\ str[k - 1] = "\r" THEN k - 2 ELSE k - 1
         IN  <<SubSeq(str, 1, e)>> \o splitLines(SubSeq(str, k + 1, Len(str)))

\* the loop of parseMaletasTxt over the trimmed lines; the current case is
\* the last of result, has tells whether there is one
RECURSIVE parseLines(_, _, _, _)
parseLines(lines, i, result, has) ==
    IF i > Len(lines) THEN result
    ELSE LET line == lines[i]
             masterRfid == trim(SubSeq(line, Len(TXT_MAESTRO_PREFIX) + 1, Len(line)))
         IN  IF line = <<>> \/ startsWith(line, <<"#">>)
             THEN parseLines(lines, i + 1, result, has)
             ELSE IF startsWith(line, TXT_MAESTRO_PREFIX)
             THEN IF masterRfid # <<>>
                  THEN parseLines(lines, i + 1,
                          Append(result, [masterRfid |-> masterRfid,
                                          productRfids |-> <<>>,
                                          expiredProductRfids |-> <<>>]), TRUE)
                  ELSE parseLines(lines, i + 1, result, has)
             ELSE IF has
             THEN parseLines(lines, i + 1,
                     [result EXCEPT ![Len(result)].productRfids = Append(@, line)], has)
             ELSE parseLines(lines, i + 1, result, has)

parseMaletasTxt(text) ==
    parseLines(Trimmed(splitLines(text)), 1, <<>>, FALSE)

----------------------------------------------------------------------------
(* Handlers of the case list and of its form *)

\* A handler of the case list ran: it leaves the reading screen alone.
CaseStep == UNCHANGED <<readingVars, retryVars>>

\* persisted copy: saveMaletasToStorage()
Saved(ms) == maletas' = ms /\ storage' = ms

openCreateMaleta ==
    /\ newMaletaMasterRfid' = <<>>
    /\ newMaletaProductRfids' = <<>>
    /\ newProductRfidInput' = <<>>

OpenCreateMaleta ==
    /\ phase = "active"
    /\ openCreateMaleta
    /\ UNCHANGED <<maletas, storage, simulatedReadInput, showSimulatedRead, imported>>
    /\ CaseStep

\* the texts the operator types as master tag and as product tag
MasterTexts == {<<" ", "A", " ">>}
ProductTexts == {<<"#", "C">>, <<"M", "A", "E", "S", "T", "R", "O", " ", "D">>, <<" ">>}

\* the operator types the master tag into the form
TypeMaster ==
    /\ phase = "active"
    /\ \E text \in MasterTexts : newMaletaMasterRfid' = text
    /\ UNCHANGED <<maletas, storage, newMaletaProductRfids, newProductRfidInput,
                   simulatedReadInput, showSimulatedRead, imported>>
    /\ CaseStep

\* setMasterFromTag(tag.id), for a tag of the list of reads
SetMasterFromTag ==
    /\ phase = "active"
    /\ \E i \in 1..Len(tagCounts) : newMaletaMasterRfid' = trim(tagCounts[i].id)
    /\ UNCHANGED <<maletas, storage, newMaletaProductRfids, newProductRfidInput,
                   simulatedReadInput, showSimulatedRead, imported>>
    /\ CaseStep

\* the products of the form after addProductFromTag(tagId)
addProductFromTag(products, master, tagId) ==
    LET id == trim(tagId)
    IN  IF id = <<>> \/ id = master THEN products
        ELSE IF id \in Range(products) THEN products
        ELSE Append(products, id)

AddProductFromTag ==
    /\ phase = "active"
    /\ Len(newMaletaProductRfids) < MaxProducts
    /\ \E i \in 1..Len(tagCounts) :
          newMaletaProductRfids' =
              addProductFromTag(newMaletaProductRfids, newMaletaMasterRfid,
                                tagCounts[i].id)
    /\ UNCHANGED <<maletas, storage, newMaletaMasterRfid, newProductRfidInput,
                   simulatedReadInput, showSimulatedRead, imported>>
    /\ CaseStep

\* the products of the form after addProductManual() with the text typed
addProductManual(products, input) ==
    LET id == trim(input)
    IN  IF id = <<>> \/ id \in Range(products) THEN products
        ELSE Append(products, id)

\* the operator types a product tag and adds it: the input is emptied
\* unless it is blank
AddProductManual ==
    /\ phase = "active"
    /\ Len(newMaletaProductRfids) < MaxProducts
    /\ \E text \in ProductTexts :
          /\ newMaletaProductRfids' = addProductManual(newMaletaProductRfids, text)
          /\ newProductRfidInput' = IF trim(text) = <<>> THEN text ELSE <<>>
    /\ UNCHANGED <<maletas, storage, newMaletaMasterRfid, simulatedReadInput,
                   showSimulatedRead, imported>>
    /\ CaseStep

\* the list after saveMaleta()
saveMaleta(ms, master, products) ==
    IF trim(master) = <<>> THEN ms
    ELSE <<[masterRfid |-> trim(master), productRfids |-> products,
            expiredProductRfids |-> <<>>]>> \o ms

SaveMaleta ==
    /\ phase = "active"
    /\ Len(maletas) < MaxCases
    /\ IF trim(newMaletaMasterRfid) = <<>>
       THEN UNCHANGED <<maletas, storage>>
       ELSE Saved(saveMaleta(maletas, newMaletaMasterRfid, newMaletaProductRfids))
    /\ UNCHANGED <<newMaletaMasterRfid, newMaletaProductRfids, newProductRfidInput,
                   simulatedReadInput, showSimulatedRead, imported>>
    /\ CaseStep

\* the tags the view offers the expired toggle of a case for: its products
ToggleInputs(m) == Range(m.productRfids)

\* toggleProductExpired(m, rfid) for a product of a case of the list
ToggleProductExpired ==
    /\ phase = "active"
    /\ \E i \in 1..Len(maletas) : \E rfid \in ToggleInputs(maletas[i]) :
          Saved([maletas EXCEPT ![i].expiredProductRfids =
                    toggleProductExpired(maletas[i], rfid)])
    /\ UNCHANGED <<newMaletaMasterRfid, newMaletaProductRfids, newProductRfidInput,
                   simulatedReadInput, showSimulatedRead, imported>>
    /\ CaseStep

\* an import that takes whatever the file gives
importMaletasFromFile_Always(c, text) ==
    [maletas |-> parseMaletasTxt(text), storage |-> parseMaletasTxt(text)]

\* reader.onload of importMaletasFromFile: the list and its saved copy, c,
\* after a file with the given text was read
importMaletasFromFile(c, text) ==
    LET loaded == parseMaletasTxt(text)
    IN  IF Len(loaded) > 0 THEN [maletas |-> loaded, storage |-> loaded] ELSE c

ImportOf(text) ==
    /\ phase = "active"
    /\ CaseStep
    /\ UNCHANGED <<newMaletaMasterRfid, newMaletaProductRfids, newProductRfidInput,
                   simulatedReadInput, showSimulatedRead>>
    /\ LET n == importMaletasFromFile([maletas |-> maletas, storage |-> storage], text)
       IN  maletas' = n.maletas /\ storage' = n.storage
    /\ imported' = IF parseMaletasTxt(text) = <<>> THEN "ignored" ELSE "applied"

\* the texts of the files the operator imports
ImportTexts ==
    {<<>>, <<"#", " ", "n", "a", "d", "a", "\n", "\n", "A", "A", "A", "A", "\n">>, <<"M", "A", "E", "S", "T", "R", "O", " ", "M", "M", "M", "M", "\r", "\n", "A", "A", "A", "A", "\r", "\n", " ", "B", "B", "B", "B", " ", "\r", "\n">>, <<"M", "A", "E", "S", "T", "R", "O", " ", "N", "N", "N", "N", "\n", "\n", "M", "A", "E", "S", "T", "R", "O", " ", "M", "M", "M", "M", "\n", "A", "A", "A", "A", "\n", "B", "B", "B", "B", "\n">>}

ImportFile == \E text \in ImportTexts : ImportOf(text)

\* the operator exports the list and imports the file just written
ImportExported == ImportOf(exportMaletasToTxt(maletas))

\* the texts the operator types as simulated read
SimulatedInputs ==
    {<<>>, <<"M", "M", "M", "M", ",", "A", "A", "A", "A">>, <<" ", "M", "M", "M", "M", ";", "A", "A", "A", "A", "\n", "B", "B", "B", "B", " ", ",", ",", " ", "N", "N", "N", "N">>, <<"M", "M", "M", "M", "\r", "\n", "A", "A", "A", "A", "\r", "\n", "B", "B", "B", "B", "\r", "\n", "N", "N", "N", "N", "\r", "\n", "X", "X", "X", "X", "\r", "\n", "X", "X", "X", "X">>}

\* the operator edits the simulated read
SetSimulatedRead ==
    /\ phase = "active"
    /\ \E text \in SimulatedInputs : simulatedReadInput' = text
    /\ simulatedReadInput' # simulatedReadInput
    /\ UNCHANGED <<maletas, storage, newMaletaMasterRfid, newMaletaProductRfids,
                   newProductRfidInput, showSimulatedRead, imported>>
    /\ CaseStep

ToggleShowSimulatedRead ==
    /\ phase = "active"
    /\ showSimulatedRead' = ~showSimulatedRead
    /\ UNCHANGED <<maletas, storage, newMaletaMasterRfid, newMaletaProductRfids,
                   newProductRfidInput, simulatedReadInput, imported>>
    /\ CaseStep

----------------------------------------------------------------------------
(* Specification of the case list: the operator builds cases in the form,  *)
(* with tags typed or taken from the reads, and exports and imports files. *)

\* both transports open
BothOpen == ess[eventSource] = "open" /\ wss[ws] = "open"

InitCases == ReadingNow /\ BothOpen /\ NoCases /\ RetryIdle

NextCases ==
    \/ OpenCreateMaleta \/ TypeMaster \/ SetMasterFromTag
    \/ AddProductFromTag \/ AddProductManual \/ SaveMaleta
    \/ ImportFile \/ ImportExported
    \/ WsMessage({M_epcA}, MaxCaseEvents)

SpecCases == InitCases /\ [][NextCases]_vars

----------------------------------------------------------------------------
(* Specification of the reconciliation: the list comes from local storage, *)
(* where an earlier session saved it; the reads come from the tunnel or    *)
(* from the simulated text.                                                *)

\* messages received in a run of the reconciliation specification
MaxStatusEvents == 3

CaseOne ==
    [masterRfid |-> <<"M", "M", "M", "M">>, productRfids |-> <<<<"A", "A", "A", "A">>, <<"B", "B", "B", "B">>>>,
     expiredProductRfids |-> <<>>]
CaseTwo ==
    [masterRfid |-> <<"N", "N", "N", "N">>, productRfids |-> <<>>,
     expiredProductRfids |-> <<>>]

\* cases that expect a tag twice: the master tag is also a product (set as
\* master after it was added as a product), a file lists a product twice
CaseMasterInside ==
    [masterRfid |-> <<"M", "M", "M", "M">>, productRfids |-> <<<<"M", "M", "M", "M">>, <<"A", "A", "A", "A">>>>,
     expiredProductRfids |-> <<>>]
CaseRepeated ==
    [masterRfid |-> <<"N", "N", "N", "N">>, productRfids |-> <<<<"B", "B", "B", "B">>, <<"B", "B", "B", "B">>>>,
     expiredProductRfids |-> <<>>]

\* lists saved by earlier sessions (the case form and import files give them)
StoredCollections ==
    {<<>>, <<CaseOne>>, <<CaseTwo, CaseOne>>, <<CaseRepeated, CaseMasterInside>>}

\* a list saved by the earlier version that flagged a whole case as
\* expired: the items have the flag `expired` and no list of expired products
CaseOld ==
    [masterRfid |-> <<"M", "M", "M", "M">>, productRfids |-> <<<<"A", "A", "A", "A">>, <<"B", "B", "B", "B">>>>,
     expired |-> TRUE]
CaseOldEmpty ==
    [masterRfid |-> <<"N", "N", "N", "N">>, productRfids |-> <<>>, expired |-> TRUE]

LegacyCollections == {<<CaseOld>>, <<CaseOldEmpty, CaseOld>>}

\* an item with an absent list of expired products read as the empty list
\* (m.expiredProductRfids ?? [])
withExpiredList(m) ==
    [masterRfid |-> m.masterRfid, productRfids |-> m.productRfids,
     expiredProductRfids |->
        IF "expiredProductRfids" \in DOMAIN m THEN m.expiredProductRfids ELSE <<>>]

\* a loading that flags the master tag of an old item too
loadMaletasFromStorage_MasterToo(saved) ==
    [i \in 1..Len(saved) |->
        IF "expired" \in DOMAIN saved[i] /\ saved[i].expired
        THEN [withExpiredList(saved[i]) EXCEPT !.expiredProductRfids =
                    <<saved[i].masterRfid>> \o saved[i].productRfids]
        ELSE withExpiredList(saved[i])]

\* loadMaletasFromStorage(): the list saved (empty when nothing is saved);
\* an item flagged `expired` that has products gets all of them as expired
loadMaletasFromStorage(saved) ==
    [i \in 1..Len(saved) |->
        IF /\ "expired" \in DOMAIN saved[i]
           /\ saved[i].expired
           /\ Len(saved[i].productRfids) > 0
        THEN [withExpiredList(saved[i]) EXCEPT !.expiredProductRfids =
                    saved[i].productRfids]
        ELSE withExpiredList(saved[i])]

InitStatus ==
    /\ ReadingNow /\ BothOpen
    /\ storage \in StoredCollections
    /\ maletas = loadMaletasFromStorage(storage)
    /\ newMaletaMasterRfid = <<>>
    /\ newMaletaProductRfids = <<>>
    /\ newProductRfidInput = <<>>
    /\ simulatedReadInput = <<>>
    /\ showSimulatedRead = TRUE
    /\ imported = "none"
    /\ RetryIdle

M_idM == <<"{", "\"", "i", "d", "\"", ":", "\"", "M", "M", "M", "M", "\"", "}">>
M_idX == <<"{", "\"", "d", "a", "t", "a", "\"", ":", "{", "\"", "i", "d", "\"", ":", "\"", "X", "X", "X", "X", "\"", "}", "}">>

StatusMessages == {M_tagsAB, M_idM, M_idX}

NextStatus ==
    \/ ToggleProductExpired \/ SetSimulatedRead \/ ToggleShowSimulatedRead
    \/ WsMessage(StatusMessages, MaxStatusEvents)
    \/ ClearTags

SpecStatus == InitStatus /\ [][NextStatus]_vars

----------------------------------------------------------------------------
(* Specification of the expired flags: the list is loaded from what an     *)
(* earlier session saved, in the present or in the older format, and the   *)
(* operator flags products, creates cases and imports files.               *)

InitFlags ==
    /\ ReadingNow /\ BothOpen
    /\ storage \in StoredCollections \cup LegacyCollections
    /\ maletas = loadMaletasFromStorage(storage)
    /\ newMaletaMasterRfid = <<>>
    /\ newMaletaProductRfids = <<>>
    /\ newProductRfidInput = <<>>
    /\ simulatedReadInput = <<>>
    /\ showSimulatedRead = TRUE
    /\ imported = "none"
    /\ RetryIdle

NextFlags ==
    \/ ToggleProductExpired
    \/ OpenCreateMaleta \/ TypeMaster \/ AddProductManual \/ SaveMaleta
    \/ ImportFile

SpecFlags == InitFlags /\ [][NextFlags]_vars

----------------------------------------------------------------------------
(* Device management of Maleta: the commands to the reader, the retry of   *)
(* the reader list, and the responses of the gateway, failures included.   *)

\* messages received in a run of the device specification
MaxDeviceEvents == 1

\* kinds of request left unanswered when the user asks for something else
\* or the retry interval fires
MaxInFlight == 1

Patient == Cardinality({k \in RequestKinds : pending[k]}) < MaxInFlight

resetReader(s) == Request([s EXCEPT !.error = ""], "reset")

rebootReader(s) == Request([s EXCEPT !.error = ""], "reboot")

resetAntennas(s) == Request([s EXCEPT !.error = ""], "resetAntennas")

\* the subscribe error of startReader, stopReader, resetReader,
\* rebootReader and resetReaderAntennas
commandError(s) == [s EXCEPT !.error = "Error"]

\* the guard of resetReader, rebootReader and resetAntennas
CanCommand == phase = "active" /\ selectedReaderId # "" /\ ~isReading(This)

ResetReader == CanCommand /\ Ran(resetReader(This))

RebootReader == CanCommand /\ Ran(rebootReader(This))

ResetAntennas == CanCommand /\ Ran(resetAntennas(This))

ResetNext ==
    /\ pending["reset"]
    /\ \E more \in BOOLEAN : Ran(refreshStatus(Answered("reset", more)))

ResetError ==
    /\ pending["reset"]
    /\ \E more \in BOOLEAN : Ran(commandError(Answered("reset", more)))

RebootNext ==
    /\ pending["reboot"]
    /\ \E more \in BOOLEAN : Ran(refreshStatus(Answered("reboot", more)))

RebootError ==
    /\ pending["reboot"]
    /\ \E more \in BOOLEAN : Ran(commandError(Answered("reboot", more)))

ResetAntennasNext ==
    /\ pending["resetAntennas"]
    /\ \E more \in BOOLEAN : Ran(loadAntennas(Answered("resetAntennas", more)))

ResetAntennasError ==
    /\ pending["resetAntennas"]
    /\ \E more \in BOOLEAN : Ran(commandError(Answered("resetAntennas", more)))

\* A step in which a handler of Maleta ran, left the fields it shares with
\* Lectura as n and the retry countdown at the given value.
MaletaRan(n, countdown) ==
    /\ InBounds(n)
    /\ Becomes(n)
    /\ retryCountdown' = countdown
    /\ UNCHANGED <<clock, fed, reads, maletas, storage, newMaletaMasterRfid,
                   newMaletaProductRfids, newProductRfidInput,
                   simulatedReadInput, showSimulatedRead, imported,
                   retryTimer, retryTimers>>

needsRetry(s) == ~s.loading /\ s.baseUrl # "" /\ Len(s.readers) = 0

\* the callback of the interval of startRetryTimer
RetryTick ==
    /\ retryTimers > 0
    /\ IF needsRetry(This)
       THEN IF retryCountdown <= 0
            THEN MaletaRan(loadAntennas(loadReaders(This)), retryIntervalSeconds)
            ELSE MaletaRan(This, retryCountdown - 1)
       ELSE MaletaRan(This, retryIntervalSeconds)

forceReload(s) ==
    LET a == loadAntennas(loadReaders([s EXCEPT !.error = ""]))
    IN  IF a.selectedReaderId # "" THEN refreshStatus(a) ELSE a

ForceReload ==
    /\ phase = "active"
    /\ MaletaRan(forceReload(This), retryIntervalSeconds)

\* Maleta's getReaders().subscribe next: an empty list restarts the countdown
MaletaReadersNext ==
    /\ pending["readers"]
    /\ \E more \in BOOLEAN, list \in ReaderLists :
          MaletaRan(readersNext(Answered("readers", more), list),
                    IF Len(list) = 0 THEN retryIntervalSeconds ELSE retryCountdown)

\* Maleta's getReaders().subscribe error
MaletaReadersError ==
    /\ pending["readers"]
    /\ \E more \in BOOLEAN :
          MaletaRan(readersError(Answered("readers", more)), retryIntervalSeconds)

InitDevice ==
    /\ ReadingNow /\ BothOpen
    /\ storage = <<CaseOne>>
    /\ maletas = loadMaletasFromStorage(storage)
    /\ newMaletaMasterRfid = <<>>
    /\ newMaletaProductRfids = <<>>
    /\ newProductRfidInput = <<>>
    /\ simulatedReadInput = <<>>
    /\ showSimulatedRead = TRUE
    /\ imported = "none"
    /\ RetryIdle

NextDevice ==
    \/ WsMessage({M_tagsAB}, MaxDeviceEvents)
    \/ Patient /\ StatusPollTick
    \/ Patient /\ StartReading
    \/ Patient /\ StopReading
    \/ Patient /\ ResetReader
    \/ Patient /\ RebootReader
    \/ Patient /\ ResetAntennas
    \/ Patient /\ ForceReload
    \/ Patient /\ RetryTick
    \/ MaletaReadersError \/ MaletaReadersNext
    \/ AntennasError \/ AntennasNext
    \/ StatusError \/ StatusNext
    \/ StartError \/ StartNext
    \/ StopError \/ StopNext
    \/ ResetError \/ ResetNext
    \/ RebootError \/ RebootNext
    \/ ResetAntennasError \/ ResetAntennasNext

SpecDevice == InitDevice /\ [][NextDevice]_vars

----------------------------------------------------------------------------
(* Properties of the realtime channel, checked under Spec *)

\* the callbacks of the transports the component references
CurrentEsOpen == eventSource # 0 /\ EsOpenOf(eventSource)
CurrentEsError == eventSource # 0 /\ EsErrorOf(eventSource)
CurrentWsOpen == ws # 0 /\ WsOpenOf(ws)
CurrentWsDown == ws # 0 /\ (WsClosedOf(ws) \/ WsFailedOf(ws))

\* C1: while one transport is open and connected is TRUE, an error or close
\* callback of the other transport leaves connected TRUE: connected goes
\* FALSE only when both transports are down.
C1_OtherTransportKeepsConnected ==
    [][ ( /\ sseConnected
          /\ \/ (ws # 0 /\ wss[ws] = "open" /\ CurrentEsError)
             \/ (eventSource # 0 /\ ess[eventSource] = "open" /\ CurrentWsDown) )
        => sseConnected' ]_vars

\* C2: the open callback of the current EventSource or of the current
\* WebSocket leaves connected TRUE, whatever the state of the other transport.
C2_OpenSetsConnected ==
    [][ (CurrentEsOpen \/ CurrentWsOpen) => sseConnected' ]_vars

\* the socket has opened while the EventSource is still connecting
C2_Witness ==
    /\ sseConnected
    /\ ws # 0 /\ wss[ws] = "open"
    /\ eventSource # 0 /\ ess[eventSource] = "connecting"

NoTimers ==
    /\ ~statusPolling /\ timers.status = 0
    /\ ~uiRefreshInterval /\ timers.ui = 0

\* C3 (as stated): right after ngOnDestroy and right after an explicit
\* disconnect (the stop response runs disconnectRealtime) neither the
\* status-poll timer nor the presentation-refresh timer is active.
C3_BothTimersCancelled ==
    [][ (NgOnDestroy \/ StopNext) => NoTimers' ]_vars

\* C3 (amended): ngOnDestroy cancels both timers; an explicit disconnect
\* cancels the presentation-refresh timer only and leaves the status poll
\* as it was.
C3_TimersOnTeardown ==
    [][ /\ NgOnDestroy => NoTimers'
        /\ StopNext => /\ ~uiRefreshInterval' /\ timers'.ui = 0
                       /\ statusPolling' = statusPolling
                       /\ timers'.status = timers.status ]_vars

\* the component, still alive, has disconnected (its socket is closing) and
\* the status poll is still running
C3_Witness ==
    /\ phase = "active"
    /\ eventSource = 0 /\ ws = 0
    /\ \E i \in Slots : wss[i] = "closing"
    /\ ~uiRefreshInterval /\ timers.ui = 0
    /\ statusPolling /\ timers.status = 1

\* this step constructs an EventSource or a WebSocket
Constructs ==
    \/ eventSource' # 0 /\ eventSource' # eventSource
    \/ ws' # 0 /\ ws' # ws

\* a transport of an earlier connect still exists
HasTransport == \E i \in Slots : ess[i] # "none" \/ wss[i] # "none"

\* C4 (as stated): once transports have been opened, a new transport is
\* constructed only in a step of startReading; no periodic activity connects.
C4_ConnectOnlyOnStartReading ==
    [][ (HasTransport /\ Constructs) => StartReading ]_vars

\* C4 (amended): a transport is constructed only in a step of startReading or
\* in the handler of a status response that reports reading while connected
\* is FALSE; the callbacks of the transports construct none.
C4_ConnectOnlyOnStartOrStatus ==
    [][ Constructs => (StartReading \/ (~sseConnected /\ StatusNextOf("reading"))) ]_vars

\* the destroyed component, which takes no operator action, holds a transport
C4_Witness ==
    /\ phase = "destroyed"
    /\ eventSource # 0 /\ ess[eventSource] \in {"connecting", "open"}

Disconnected(s) ==
    /\ ~s.sseConnected /\ s.eventSource = 0 /\ s.ws = 0 /\ ~s.uncaught

\* C5: disconnectRealtime called in any reachable state, and called again
\* right after, raises nothing and leaves connected FALSE and both references
\* cleared, the second call changing nothing; so do the steps that end in it.
C5_DisconnectSafe ==
    /\ [](LET d == disconnectRealtime(This)
          IN  /\ Disconnected(d)
              /\ disconnectRealtime(d) = d)
    /\ [][ (StopNext \/ NgOnDestroy) =>
             (~sseConnected' /\ eventSource' = 0 /\ ws' = 0 /\ ~uncaught') ]_vars

\* ngOnDestroy has disconnected, and the response of a stop request that
\* will disconnect again is on its way
C5_Witness ==
    /\ phase = "destroyed"
    /\ pending["stop"]
    /\ ~sseConnected /\ eventSource = 0 /\ ws = 0 /\ ~uncaught

\* close() has not been called on a transport that is connecting or open
Live(state) == state \in {"connecting", "open"}

\* C6: every EventSource and every WebSocket of the component that is not
\* closed (connecting or open: close() has not been called on it) is the one
\* the component references, so there is at most one of each.
C6_OneLiveTransportEach ==
    /\ \A i \in Slots : Live(ess[i]) => i = eventSource
    /\ \A i \in Slots : Live(wss[i]) => i = ws

\* a second connect: the earlier socket is still closing, the new ones live
C6_Witness ==
    /\ eventSource # 0 /\ Live(ess[eventSource])
    /\ ws # 0 /\ Live(wss[ws])
    /\ \E i \in Slots : i # ws /\ wss[i] = "closing"

----------------------------------------------------------------------------
(* Properties of the read aggregator, checked under SpecAgg and SpecLog *)

\* a step in which the message raw arrives on either channel
Arrives(raw) ==
    \/ \E type \in ListenedTypes : EsMessageOf(type, raw, MaxAggEvents)
    \/ WsMessageOf(raw, MaxAggEvents)

\* C7: a message arriving on any channel (unnamed or tag, detection, event
\* on the stream, or on the socket) is handled once: eventsReceived grows by
\* one and one entry, for this message, is put in front of the log.
C7_HandledOnce ==
    [][ \A raw \in AggMessages :
          Arrives(raw) =>
            /\ eventsReceived' = eventsReceived + 1
            /\ events' = <<[time |-> clock, data |-> decode(raw)]>> \o events ]_vars

\* two different messages have arrived and are in the log newest first
C7_Witness ==
    /\ eventsReceived = 2
    /\ fed = <<M_epcA, M_tagsAB>>
    /\ Len(events) = 2
    /\ events[1].data = decode(M_tagsAB)
    /\ events[2].data = decode(M_epcA)

Min(a, b) == IF a < b THEN a ELSE b

\* C8: the log never holds more than maxEvents entries; after n messages
\* since the last clearEvents it holds the min(n, maxEvents) newest of them,
\* newest first.
C8_LogNewestFirst ==
    LET n == Len(fed)
    IN  /\ Len(events) <= maxEvents
        /\ Len(events) = Min(n, maxEvents)
        /\ \A j \in 1..Len(events) : events[j].data = decode(fed[n - j + 1])

\* more than maxEvents messages have arrived and the oldest is gone
C8_Witness ==
    /\ Len(fed) > maxEvents
    /\ Len(events) = maxEvents
    /\ events[maxEvents].data = decode(fed[Len(fed) - maxEvents + 1])

\* the message raw carries the tag id
Carries(raw, id) == InSeq(id, extractAllTagIds(decode(raw)))

\* the arrivals since the last clearTags that carry the tag id
ReadsOf(id) == SelectSeq(reads, LAMBDA r : Carries(r.raw, id))

\* the tag ids that are counted or that a message since clearTags carried
KnownTagIds ==
    {tagCounts[i].id : i \in 1..Len(tagCounts)} \cup
    UNION {{extractAllTagIds(decode(reads[j].raw))[k] :
              k \in 1..Len(extractAllTagIds(decode(reads[j].raw)))} :
           j \in 1..Len(reads)}

\* C9: N messages carrying a tag id, with no clearTags between, leave one
\* record for the id, with count N and lastSeen the time of the last of them.
C9_OneRecordPerTag ==
    \A id \in KnownTagIds :
        LET mine == ReadsOf(id)
            recs == {i \in 1..Len(tagCounts) : tagCounts[i].id = id}
        IN  /\ mine # <<>>
            /\ Cardinality(recs) = 1
            /\ \A i \in recs : /\ tagCounts[i].count = Len(mine)
                               /\ tagCounts[i].lastSeen = mine[Len(mine)].time

\* three messages carried the same id, the last of them later than the first
C9_Witness ==
    \E id \in KnownTagIds :
        /\ Len(ReadsOf(id)) = 3
        /\ ReadsOf(id)[1].time < ReadsOf(id)[3].time

\* the wrapper object { raw: text }
RawWrapper(raw) == JObj(<<[k |-> K_raw, v |-> JStr(raw)]>>)

\* C10: a message whose text is not valid JSON raises nothing and is not
\* dropped: eventsReceived grows by one and the log gains an entry whose data
\* is the object { raw: text }.
C10_InvalidJsonLogged ==
    [][ \A raw \in AggMessages :
          (~JsonParse(raw).ok /\ Arrives(raw)) =>
            /\ ~uncaught'
            /\ eventsReceived' = eventsReceived + 1
            /\ Len(events') = Len(events) + 1
            /\ events'[1].data = RawWrapper(raw) ]_vars

\* the newest entry of the log wraps a text that is not JSON
C10_Witness ==
    /\ fed # <<>>
    /\ fed[Len(fed)] = M_oops
    /\ ~JsonParse(M_oops).ok
    /\ events # <<>>
    /\ events[1].data = RawWrapper(M_oops)

----------------------------------------------------------------------------
(* Properties of the reconciliation, checked under SpecStatus *)

\* the current read set
ReadSet == Range(effectiveReadTags)

\* the trimmed expected tags of a case: master and products
ExpectedTags(m) ==
    {trim(m.masterRfid)} \cup {trim(m.productRfids[i]) : i \in 1..Len(m.productRfids)}

CaseExpired(m) == m.expiredProductRfids # <<>>

\* C11: the status of a case is expired (red) when its expired-product list
\* is not empty, whatever was read; otherwise incomplete (blue) when some
\* expected tag is not in the read set; otherwise complete (green).  It is
\* never anomalous (yellow).
C11_CaseStatusPrecedence ==
    \A i \in 1..Len(maletas) :
        LET m == maletas[i]
            status == getMaletaStatus(m, effectiveReadTags)
        IN  /\ status # "yellow"
            /\ status = IF CaseExpired(m) THEN "red"
                        ELSE IF ExpectedTags(m) \ ReadSet # {} THEN "blue"
                        ELSE "green"

\* one case is expired although all its tags were read, another is complete
C11_Witness ==
    /\ \E i \in 1..Len(maletas) :
          /\ getMaletaStatus(maletas[i], effectiveReadTags) = "red"
          /\ ExpectedTags(maletas[i]) \subseteq ReadSet
    /\ \E j \in 1..Len(maletas) :
          getMaletaStatus(maletas[j], effectiveReadTags) = "green"

\* the union of the expected tags of all cases
ExpectedUnion == UNION {ExpectedTags(maletas[i]) : i \in 1..Len(maletas)}

\* C12: the aggregate status is complete (green) with no cases; else
\* expired (red) when a case is expired; else anomalous (yellow) when a read
\* tag is outside the union of the expected tags; else incomplete (blue)
\* when a case misses a tag; else complete.
C12_AggregatePrecedence ==
    generalSemaphoreStatus(maletas, effectiveReadTags) =
        IF maletas = <<>> THEN "green"
        ELSE IF \E i \in 1..Len(maletas) : CaseExpired(maletas[i]) THEN "red"
        ELSE IF ReadSet \ ExpectedUnion # {} THEN "yellow"
        ELSE IF \E i \in 1..Len(maletas) : ExpectedTags(maletas[i]) \ ReadSet # {}
             THEN "blue"
        ELSE "green"

\* two cases, both complete, and a read tag that is in neither
C12_Witness ==
    /\ Len(maletas) = 2
    /\ \A i \in 1..Len(maletas) :
          getMaletaStatus(maletas[i], effectiveReadTags) = "green"
    /\ ReadSet \ ExpectedUnion # {}
    /\ generalSemaphoreStatus(maletas, effectiveReadTags) = "yellow"

\* C13: for a case with no expired product the missing list holds exactly
\* the expected tags that are not in the read set, and the status is
\* incomplete (blue) exactly when the missing list is not empty.
C13_MissingList ==
    \A i \in 1..Len(maletas) :
        LET m == maletas[i]
            missing == getMaletaMissing(m, effectiveReadTags)
        IN  ~CaseExpired(m) =>
              /\ Range(missing) = ExpectedTags(m) \ ReadSet
              /\ (getMaletaStatus(m, effectiveReadTags) = "blue") <=> (missing # <<>>)

\* master MMMM with products AAAA and BBBB, reads MMMM and AAAA: BBBB missing
C13_Witness ==
    \E i \in 1..Len(maletas) :
        /\ maletas[i] = CaseOne
        /\ ReadSet = {CaseOne.masterRfid, CaseOne.productRfids[1]}
        /\ getMaletaMissing(maletas[i], effectiveReadTags) = <<CaseOne.productRfids[2]>>
        /\ getMaletaStatus(maletas[i], effectiveReadTags) = "blue"

\* a list of distinct texts that are exactly the read tags outside the union
UnlistedExactly(x) ==
    /\ Range(x) = ReadSet \ ExpectedUnion
    /\ \A i, j \in 1..Len(x) : x[i] = x[j] => i = j

\* C14 (as stated): for every list of cases, the empty one included, the
\* unlisted tags are the distinct read tags outside the union of expected tags.
C14_UnlistedAlways ==
    UnlistedExactly(extraUnlistedTags(maletas, effectiveReadTags))

\* C14 (amended): with at least one case the unlisted tags are the distinct
\* read tags outside the union of expected tags; with no case the list of
\* unlisted tags is empty, whatever was read.
C14_UnlistedUnlessNoCases ==
    LET x == extraUnlistedTags(maletas, effectiveReadTags)
    IN  IF maletas = <<>> THEN x = <<>> ELSE UnlistedExactly(x)

\* an unlisted tag was read more than once and is listed once
C14_Witness ==
    /\ maletas # <<>>
    /\ Len(effectiveReadTags) > Cardinality(ReadSet)
    /\ Len(extraUnlistedTags(maletas, effectiveReadTags)) = 1
    /\ ReadSet \ ExpectedUnion # {}

----------------------------------------------------------------------------
(* Properties of the text format, checked under SpecCases *)

\* a step that reads a file
Imports == ImportFile \/ ImportExported

\* the files an import step can read
FilesNow == ImportTexts \cup {exportMaletasToTxt(maletas)}

\* C15: an import whose text gives no case changes neither the list nor its
\* saved copy; an import changes them only to the cases it parsed, of which
\* there is at least one.
C15_EmptyImportKeepsList ==
    [][ (maletas' # maletas \/ storage' # storage) =>
          /\ \A text \in FilesNow :
                ~(parseMaletasTxt(text) = <<>> /\ ImportOf(text))
          /\ Imports => (maletas' # <<>> /\ storage' = maletas') ]_vars

\* a file with no case was read while the list had cases, which are kept
C15_Witness ==
    /\ imported = "ignored"
    /\ maletas # <<>>
    /\ storage = maletas

\* same master tags, each with the same product tags
SameCases(a, b) ==
    /\ Len(a) = Len(b)
    /\ \A i \in 1..Len(a) :
          /\ a[i].masterRfid = b[i].masterRfid
          /\ a[i].productRfids = b[i].productRfids

\* C16: exporting the list and importing the file written gives the same
\* master tags, each with the same product tags.
C16_ExportImportRoundTrip ==
    [][ ImportExported => SameCases(maletas', maletas) ]_vars

----------------------------------------------------------------------------
(* Frame of the two clearing operations, checked under SpecAgg *)

\* C20: clearEvents empties the event log and leaves the tag table,
\* totalReads and eventsReceived as they were; clearTags empties the tag
\* table and sets totalReads to 0 in the same step and leaves the event log
\* and eventsReceived as they were.
C20_ClearsAreIndependent ==
    [][ /\ ClearEvents =>
              /\ events' = <<>>
              /\ UNCHANGED <<tagCounts, totalReads, eventsReceived>>
        /\ ClearTags =>
              /\ tagCounts' = <<>>
              /\ totalReads' = 0
              /\ UNCHANGED <<events, eventsReceived>> ]_vars

\* the tag table was cleared after two messages, a third message brought a
\* tag, then the log was cleared: the log is empty, the table is not
C20_Witness ==
    /\ eventsReceived = 3
    /\ Len(reads) = 1
    /\ fed = <<>>
    /\ events = <<>>
    /\ tagCounts # <<>>
    /\ totalReads > 0

----------------------------------------------------------------------------
(* Properties of the extractor, checked under SpecExtract on the decoded   *)
(* payloads the log holds                                                  *)

LoggedData == {events[i].data : i \in 1..Len(events)}

\* the payload is a map whose key epc holds a string
HasEpcText(d) == d.t = "obj" /\ Member(d, K_epc).t = "str"

\* C17 (as stated): for a map whose key epc holds a non-empty string,
\* extractTagId returns that string trimmed, whatever else the map holds.
C17_EpcNonEmptyWins ==
    \A d \in LoggedData :
        (HasEpcText(d) /\ Member(d, K_epc).v # <<>>) =>
            extractTagId(d) = trim(Member(d, K_epc).v)

\* C17 (amended): for a map whose key epc holds a string that is not empty
\* once trimmed, extractTagId returns that string trimmed, whatever else the
\* map holds; an epc of white space only is passed over like an absent one.
C17_EpcNonBlankWins ==
    \A d \in LoggedData :
        (HasEpcText(d) /\ trim(Member(d, K_epc).v) # <<>>) =>
            extractTagId(d) = trim(Member(d, K_epc).v)

\* an epc with spaces around it wins over tagId, tag, tags and data
C17_Witness ==
    \E d \in LoggedData :
        /\ HasEpcText(d)
        /\ Member(d, K_epc).v # trim(Member(d, K_epc).v)
        /\ Member(d, K_tagId).t = "str"
        /\ Truthy(Member(d, K_tag))
        /\ Member(d, K_tags).t = "arr"
        /\ Truthy(Member(d, K_data))
        /\ extractTagId(d) = <<"A", "A", "A", "A">>
        /\ \E i \in 1..Len(tagCounts) : tagCounts[i].id = <<"A", "A", "A", "A">>

\* the elements of a top-level tags list, none without one
TagsOf(d) ==
    IF d.t = "obj" /\ Member(d, K_tags).t = "arr" THEN Member(d, K_tags).v ELSE <<>>

\* what extractTagId finds in the whole payload, then in each tags element
Candidates(d) ==
    <<extractTagId(d)>> \o [i \in 1..Len(TagsOf(d)) |-> extractTagId(TagsOf(d)[i])]

\* the places of the candidates of length 4 or more not found at an earlier place
FirstTimes(c) ==
    {k \in 1..Len(c) : Len(c[k]) >= 4 /\ \A j \in 1..(k - 1) : c[j] # c[k]}

\* C18: extractAllTagIds returns no id twice, at most 1 + |tags| ids, and
\* in discovery order: the result for the whole payload first when its
\* length is at least 4, then the ids found for the first time in each
\* element of a top-level tags list.  {epc: AAAA1111, tags: [{id: AAAA1111},
\* {id: BBBB2222}]} gives [AAAA1111, BBBB2222].
C18_AllTagIdsInOrder ==
    \A d \in LoggedData :
        LET ids == extractAllTagIds(d)
            c == Candidates(d)
            first == FirstTimes(c)
        IN  /\ \A i, j \in 1..Len(ids) : ids[i] = ids[j] => i = j
            /\ Len(ids) <= 1 + Len(TagsOf(d))
            /\ Len(c[1]) >= 4 => (ids # <<>> /\ ids[1] = c[1])
            /\ Len(ids) = Cardinality(first)
            /\ \A k \in first : ids[Cardinality({j \in first : j <= k})] = c[k]
            /\ (/\ HasEpcText(d)
                /\ Member(d, K_epc).v = <<"A", "A", "A", "A", "1", "1", "1", "1">>
                /\ Len(TagsOf(d)) = 2)
               => ids = << <<"A", "A", "A", "A", "1", "1", "1", "1">>,
                           <<"B", "B", "B", "B", "2", "2", "2", "2">> >>

\* the epc is found again in the first tag and once more in no other: two
\* ids from three candidates, both counted once in the tag table
C18_Witness ==
    /\ \E d \in LoggedData :
          /\ Len(TagsOf(d)) = 2
          /\ Candidates(d)[1] = Candidates(d)[2]
          /\ Len(extractAllTagIds(d)) = 2
    /\ Len(tagCounts) = 2
    /\ \A i \in 1..Len(tagCounts) : tagCounts[i].count = 1

\* C19: extractTagId gives, for a payload of any shape (null, text, number,
\* boolean, list, map, nested), either none or a text that is not empty and
\* has no white space at its start or end.
C19_NoneOrTrimmedText ==
    \A d \in LoggedData :
        LET id == extractTagId(d)
        IN  \/ id = none
            \/ /\ Len(id) > 0
               /\ \A i \in 1..Len(id) : Len(id[i]) = 1
               /\ ~IsSpace(id[1])
               /\ ~IsSpace(id[Len(id)])

\* a boolean gave none and lists in lists gave the id four levels down
C19_Witness ==
    /\ \E d \in LoggedData : d.t = "bool" /\ extractTagId(d) = none
    /\ \E d \in LoggedData :
          /\ d.t = "arr"
          /\ extractTagId(d) = <<"D", "D", "D", "D">>

----------------------------------------------------------------------------
(* Growth and bookkeeping of the aggregator, checked under SpecAgg *)

\* the ids of the records of a table
TagIds(table) == {table[i].id : i \in 1..Len(table)}

\* the count of the record of id in a table that has one
CountOf(table, id) == table[CHOOSE i \in 1..Len(table) : table[i].id = id].count

\* a step in which a message reaches processEvent
MessageArrives ==
    \/ EsMessage(AggMessages, MaxAggEvents)
    \/ WsMessage(AggMessages, MaxAggEvents)

\* C21: across a step of processEvent every id of the table stays in it,
\* no count goes down, totalReads and eventsReceived do not go down and the
\* event log does not get shorter; a record leaves the table in no step
\* but clearTags.
C21_GrowsBetweenClears ==
    [][ /\ MessageArrives =>
              /\ \A id \in TagIds(tagCounts) :
                    /\ id \in TagIds(tagCounts')
                    /\ CountOf(tagCounts', id) >= CountOf(tagCounts, id)
              /\ totalReads' >= totalReads
              /\ eventsReceived' >= eventsReceived
              /\ Len(events') >= Len(events)
        /\ (TagIds(tagCounts) \ TagIds(tagCounts') # {}) => ClearTags ]_vars

\* three messages and no clear: two records, one of them counted again
C21_Witness ==
    /\ Len(fed) = 3
    /\ Len(reads) = 3
    /\ Len(events) = 3
    /\ Len(tagCounts) = 2
    /\ \E i \in 1..Len(tagCounts) : tagCounts[i].count >= 2
    /\ \E i \in 1..Len(tagCounts) : tagCounts[i].count = 1

RECURSIVE SumOfCounts(_, _)
SumOfCounts(table, i) ==
    IF i > Len(table) THEN 0 ELSE table[i].count + SumOfCounts(table, i + 1)

\* C27: totalReads is the sum of the counts of the records of the table;
\* every record has a count of 1 or more and is the only record of its id
\* (the id is the key of the record).
C27_TotalIsSumOfCounts ==
    /\ totalReads = SumOfCounts(tagCounts, 1)
    /\ \A i \in 1..Len(tagCounts) :
          /\ tagCounts[i].count >= 1
          /\ tagIndex(tagCounts, tagCounts[i].id) = i
          /\ \A j \in 1..Len(tagCounts) : tagCounts[j].id = tagCounts[i].id => j = i

\* the table was cleared after reads were counted, and one message with
\* two tags was counted since
C27_Witness ==
    /\ eventsReceived = 3
    /\ Len(reads) = 1
    /\ Len(tagCounts) = 2
    /\ totalReads = 2

----------------------------------------------------------------------------
(* The expired flags, checked under SpecFlags *)

----------------------------------------------------------------------------
(* Repeated expected tags, checked under SpecStatus *)

\* the expected list of the case names some tag more than once
ExpectsTwice(m) == Len(expectedOf(m)) > Cardinality(ExpectedTags(m))

\* C26: a case with no expired product that expects a tag more than once
\* (its master tag is one of its products, or a product is listed twice) is
\* complete once every distinct expected tag is in the read set, and its
\* progress then reports as many read as expected, the repeats counted.
C26_RepeatsNeedOneRead ==
    \A i \in 1..Len(maletas) :
        LET m == maletas[i]
            progress == getMaletaProgress(m, effectiveReadTags)
        IN  /\ progress.total = 1 + Len(m.productRfids)
            /\ (~CaseExpired(m) /\ ExpectedTags(m) \subseteq ReadSet) =>
                  /\ getMaletaStatus(m, effectiveReadTags) = "green"
                  /\ progress.read = progress.total

\* a case that expects three tags, two of them the same, is complete with
\* its two distinct tags read once each
C26_Witness ==
    \E i \in 1..Len(maletas) :
        /\ ExpectsTwice(maletas[i])
        /\ Cardinality(ExpectedTags(maletas[i])) = 2
        /\ Len(effectiveReadTags) = Cardinality(ReadSet)
        /\ getMaletaStatus(maletas[i], effectiveReadTags) = "green"
        /\ getMaletaProgress(maletas[i], effectiveReadTags) = [read |-> 3, total |-> 3]

----------------------------------------------------------------------------
(* Failures when the transports are constructed, checked under Spec *)

\* a step of a handler that calls connectRealtime in which the EventSource
\* constructor returns (esOk) or throws, and so the WebSocket constructor
Connects(esOk, wsOk) ==
    \/ /\ phase = "active" /\ selectedReaderId # "" /\ ~isReading(This)
       /\ Ran(startReading(This, esOk, wsOk))
    \/ /\ pending["status"]
       /\ \E more \in BOOLEAN :
             /\ ~Answered("status", more).sseConnected
             /\ Ran(statusNext(Answered("status", more), "reading", esOk, wsOk))

\* C22: a constructor that throws does not keep the other transport from
\* being opened; when both throw, or the base address is empty, no transport
\* is held and connected is FALSE; in no case does an exception escape.
C22_ConstructorFailuresCaught ==
    [][ \A esOk, wsOk \in BOOLEAN :
          Connects(esOk, wsOk) =>
            /\ uncaught' = uncaught
            /\ ~sseConnected'
            /\ IF baseUrl = ""
               THEN eventSource' = 0 /\ ws' = 0
               ELSE /\ IF esOk THEN eventSource' # 0 /\ ess'[eventSource'] = "connecting"
                             ELSE eventSource' = 0
                    /\ IF wsOk THEN ws' # 0 /\ wss'[ws'] = "connecting"
                             ELSE ws' = 0 ]_vars

\* the EventSource could not be constructed and the WebSocket was: it is
\* open and the channel is connected
C22_Witness ==
    /\ eventSource = 0
    /\ ws # 0
    /\ wss[ws] = "open"
    /\ sseConnected
    /\ ~uncaught

----------------------------------------------------------------------------
(* The intervals, checked under Spec *)

\* C23: at most one status-poll interval and at most one
\* presentation-refresh interval is scheduled, and an interval is scheduled
\* exactly when the component holds its handle.
C23_OneTimerPerPurpose ==
    /\ timers.status = IF statusPolling THEN 1 ELSE 0
    /\ timers.ui = IF uiRefreshInterval THEN 1 ELSE 0

\* both intervals run after the channel was connected a second time
C23_Witness ==
    /\ eventSource = 2
    /\ timers = [status |-> 1, ui |-> 1]
    /\ statusPolling
    /\ uiRefreshInterval

----------------------------------------------------------------------------
(* After teardown, checked under Spec *)

\* C28: once ngOnDestroy has run no interval is scheduled and no transport
\* is connecting or open, in every later state, also after a reader-list or
\* reader-status response that was in flight at teardown has been delivered.
C28_NothingActiveAfterDestroy ==
    phase = "destroyed" =>
        /\ timers = [status |-> 0, ui |-> 0]
        /\ \A i \in Slots : /\ ess[i] \notin {"connecting", "open"}
                             /\ wss[i] \notin {"connecting", "open"}

----------------------------------------------------------------------------
(* Callbacks of a socket the component no longer references, under Spec *)

\* the close or error callback of a socket that is not the current one
StaleWsDown == \E i \in Slots : i # ws /\ (WsClosedOf(i) \/ WsFailedOf(i))

\* C29: when connectRealtime has been called again and the new socket is
\* open with connected TRUE, the late close or error callback of the socket
\* of the earlier connection leaves connected TRUE.
C29_StaleCallbackKeepsConnected ==
    [][ (ws # 0 /\ wss[ws] = "open" /\ sseConnected /\ StaleWsDown)
            => sseConnected' ]_vars

----------------------------------------------------------------------------
(* The connected signal against the transports, checked under Spec *)

\* C30: whenever connected is TRUE, the EventSource or the WebSocket the
\* component references is open.
C30_ConnectedMeansOneOpen ==
    sseConnected =>
        \/ eventSource # 0 /\ ess[eventSource] = "open"
        \/ ws # 0 /\ wss[ws] = "open"

\* connected after the EventSource opened and the WebSocket, once open,
\* closed: the callbacks of both transports have run
C30_Witness ==
    /\ sseConnected
    /\ eventSource # 0 /\ ess[eventSource] = "open"
    /\ ws # 0 /\ wss[ws] = "closed"

\* A failure of a device-management call is delivered
DeviceFailure ==
    \/ MaletaReadersError \/ AntennasError \/ StatusError
    \/ StartError \/ StopError
    \/ ResetError \/ RebootError \/ ResetAntennasError

\* what no failure of a device-management call touches: the tag table, the
\* total, the event log, the case list, and with them the selection, the
\* transports and the timers
KeptOnFailure ==
    <<tagCounts, totalReads, events, eventsReceived, maletas, storage,
      baseUrl, selectedReaderId, readers, statusPolling, uiRefreshInterval,
      timers, eventSource, ws, ess, wss, sseConnected, uncaught, phase,
      retryTimer, retryTimers>>

\* C25 as stated: a failure of a device-management call leaves the tag
\* table, totalReads, the event log and the case list unchanged, and changes
\* nothing but the error text, the reader status and the antenna list.
C25_FailureSetsOnlyErrorStatusAntennas ==
    [][DeviceFailure => UNCHANGED <<KeptOnFailure, loading, retryCountdown>>]_vars

\* C25 amended: a failure of a device-management call leaves the tag table,
\* totalReads, the event log and the case list unchanged; besides the error
\* text, the reader status and the antenna list it may only lower the
\* loading flag and restart the retry countdown (failure of the reader list).
C25_FailureKeepsTablesAndCases ==
    [][DeviceFailure =>
         /\ UNCHANGED KeptOnFailure
         /\ loading' \in {loading, FALSE}
         /\ retryCountdown' \in {retryCountdown, retryIntervalSeconds}]_vars

\* the request for the reader list failed while tags were counted and
\* logged, a case is kept and no reader is known
C25_Witness ==
    /\ error = "Error al cargar lectores"
    /\ ~loading
    /\ retryCountdown = retryIntervalSeconds
    /\ Len(readers) = 0
    /\ tagCounts # <<>>
    /\ events # <<>>
    /\ maletas # <<>>

\* the status of the i-th case and the aggregate status, as displayed
StatusOfCase(i) == getMaletaStatus(maletas[i], effectiveReadTags)

AggregateStatus == generalSemaphoreStatus(maletas, effectiveReadTags)

\* a step that keeps the case collection and the live read source and is
\* not a clearTags
LiveStep ==
    /\ ~showSimulatedRead /\ ~showSimulatedRead'
    /\ maletas' = maletas
    /\ ~ClearTags

\* C31: with the case collection fixed, the live read source and no
\* clearTags, a case that is complete (green) is complete after the step,
\* and an aggregate status that is anomalous (yellow) is anomalous or
\* expired (red) after the step.
C31_CompletenessIsStable ==
    [][LiveStep =>
         /\ \A i \in 1..Len(maletas) :
               StatusOfCase(i) = "green" => StatusOfCase(i)' = "green"
         /\ AggregateStatus = "yellow" => AggregateStatus' \in {"yellow", "red"}]_vars

\* a case is complete and the last tag to enter the table is listed in no
\* case: the message that brought it found the case complete and left it so
C31_Witness ==
    /\ ~showSimulatedRead
    /\ Len(tagCounts) >= 4
    /\ tagCounts[Len(tagCounts)].id = <<"X", "X", "X", "X">>
    /\ \E i \in 1..Len(maletas) : StatusOfCase(i) = "green"
    /\ AggregateStatus = "yellow"

----------------------------------------------------------------------------
(* One message and the tag table, checked under SpecAgg *)

\* the count of id in a table, 0 when the table has no record of it
CountOrZero(table, id) == IF id \in TagIds(table) THEN CountOf(table, id) ELSE 0

\* C32: a message raises the count of any one tag id by at most 1 and
\* totalReads by exactly the number of distinct ids extractAllTagIds returns
\* for it; every key of the tag table is a trimmed text of length 4 or more.
C32_OneReadPerIdPerMessage ==
    [][ \A raw \in AggMessages :
          Arrives(raw) =>
            LET ids == extractAllTagIds(decode(raw))
            IN  /\ \A id \in TagIds(tagCounts') :
                      CountOrZero(tagCounts', id) - CountOrZero(tagCounts, id)
                          = IF id \in Range(ids) THEN 1 ELSE 0
                /\ totalReads' = totalReads + Cardinality(Range(ids))
                /\ \A i \in 1..Len(tagCounts') :
                      /\ tagCounts'[i].id = trim(tagCounts'[i].id)
                      /\ Len(tagCounts'[i].id) >= 4 ]_vars

\* the last message named one id twice and another once; the first was
\* in the table already and was counted once more, not twice
C32_Witness ==
    /\ Len(reads) = 2
    /\ reads[1].raw = M_epcA
    /\ reads[2].raw = M_tagsAB
    /\ Len(Candidates(decode(M_tagsAB))) = 3
    /\ Len(extractAllTagIds(decode(M_tagsAB))) = 2
    /\ totalReads = 3
    /\ CountOrZero(tagCounts, <<"A", "A", "A", "A">>) = 2
    /\ CountOrZero(tagCounts, <<"B", "B", "B", "B">>) = 1

----------------------------------------------------------------------------
(* Messages that are not JSON, checked under SpecRaw *)

\* a step in which the text raw reaches processEvent
RawArrives(raw) ==
    \/ \E type \in ListenedTypes : EsMessageOf(type, raw, MaxRawEvents)
    \/ WsMessageOf(raw, MaxRawEvents)

\* C33: a message that fails JSON decoding is counted as a read of its
\* trimmed text when that has 4 or more characters: the record of that key
\* is created or its count raised by 1, totalReads grows by 1 and no other
\* record changes its count; when the trimmed text is shorter, the tag table
\* and totalReads are unchanged.
C33_UnparsedTextIsARead ==
    [][ \A raw \in RawMessages :
          (~JsonParse(raw).ok /\ RawArrives(raw)) =>
            IF Len(trim(raw)) >= 4
            THEN /\ CountOrZero(tagCounts', trim(raw))
                       = CountOrZero(tagCounts, trim(raw)) + 1
                 /\ totalReads' = totalReads + 1
                 /\ \A id \in TagIds(tagCounts') \ {trim(raw)} :
                       CountOrZero(tagCounts', id) = CountOrZero(tagCounts, id)
            ELSE /\ tagCounts' = tagCounts
                 /\ totalReads' = totalReads ]_vars

\* a bare text created the record, the same text padded with spaces raised
\* its count, and a text of five characters, three once trimmed, left no trace
C33_Witness ==
    /\ Len(reads) = 3
    /\ reads[1].raw = M_oops
    /\ reads[2].raw = M_abc
    /\ reads[3].raw = M_padded
    /\ ~JsonParse(M_oops).ok /\ ~JsonParse(M_abc).ok /\ ~JsonParse(M_padded).ok
    /\ Len(tagCounts) = 1
    /\ tagCounts[1].id = M_oops
    /\ tagCounts[1].count = 2
    /\ totalReads = 2

====
